---------------------------- MODULE Spec2Model ----------------------------
(***************************************************************************)
(* Model of the aytechnet/decimal fixed-point decimal type.                *)
(*                                                                         *)
(* A Decimal is a signed 64-bit word packing sign, loss flag, a 5-bit      *)
(* exponent and a 57-bit mantissa.  The arithmetic works on VME tuples     *)
(* (v, m, e): v holds the sign and loss bits, m is a uint64 mantissa and   *)
(* e an int64 exponent.                                                    *)
(*                                                                         *)
(* Representation used here:                                               *)
(*   - a uint64 is a natural number below 2^64, written as the sequence    *)
(*     of its base-10000 digits, least significant first, without leading  *)
(*     zero digits (TLC integers are 32 bits wide; zero is <<>>);          *)
(*   - v is the set of the bit positions that are set in it (63 is the     *)
(*     sign bit, 62 the loss bit, 57..61 the exponent field);              *)
(*   - an int64 Decimal word d is the record [neg, hi, lo]: neg is d < 0,  *)
(*     and the magnitude |d| as a uint64 has the bits hi among 57..63 and  *)
(*     the 57 low bits lo.  math.MinInt64 is [neg TRUE, hi {63}, lo 0];    *)
(*   - exponents are TLC integers.                                         *)
(***************************************************************************)
EXTENDS Integers, Sequences, FiniteSets, TLC

VARIABLES op, lhs, rhs, prec, res, res2, ok

vars == <<op, lhs, rhs, prec, res, res2, ok>>

-----------------------------------------------------------------------------
(* Natural numbers wider than a TLC integer.                               *)

Base == 10 ^ 4

Limb(a, i) == IF i <= Len(a) THEN a[i] ELSE 0

MaxOf(x, y) == IF x >= y THEN x ELSE y

MinOf(x, y) == IF x <= y THEN x ELSE y

MaxIn(S) == CHOOSE x \in S : \A y \in S : y <= x

\* the function f over 1..n as a sequence
Digits(f, n) == SubSeq(f, 1, n)

\* a without its leading zero digits
BStrip(a) ==
    LET nz == {i \in 1..Len(a) : a[i] # 0}
    IN  IF nz = {} THEN <<>> ELSE SubSeq(a, 1, MaxIn(nz))

RECURSIVE NatOf(_)
NatOf(n) == IF n = 0 THEN <<>> ELSE <<n % Base>> \o NatOf(n \div Base)

BZero == <<>>

BOne == <<1>>

BIsZero(a) == a = <<>>

BCmp(a, b) ==
    LET df == {i \in 1..MaxOf(Len(a), Len(b)) : Limb(a, i) # Limb(b, i)}
    IN  IF df = {} THEN 0
        ELSE IF Limb(a, MaxIn(df)) < Limb(b, MaxIn(df)) THEN -1
        ELSE 1

BLt(a, b) == BCmp(a, b) < 0

BLe(a, b) == BCmp(a, b) <= 0

\* digit i receives a carry when some lower digit sum overflows and every
\* digit sum in between is Base - 1
BAdd(a, b) ==
    LET n == MaxOf(Len(a), Len(b))
        s == Digits([i \in 1..n |-> Limb(a, i) + Limb(b, i)], n)
        c == [i \in 1..(n + 1) |->
                 IF \E j \in 1..(i - 1) :
                        /\ s[j] >= Base
                        /\ \A k \in (j + 1)..(i - 1) : s[k] = Base - 1
                 THEN 1 ELSE 0]
    IN  BStrip([i \in 1..(n + 1) |->
                   IF i <= n THEN (s[i] + c[i]) % Base ELSE c[i]])

\* a - b for a >= b; digit i lends when some lower digit difference is
\* negative and every digit difference in between is 0
BSub(a, b) ==
    LET s == Digits([i \in 1..Len(a) |-> a[i] - Limb(b, i)], Len(a))
        c == [i \in 1..Len(a) |->
                 IF \E j \in 1..(i - 1) :
                        /\ s[j] < 0
                        /\ \A k \in (j + 1)..(i - 1) : s[k] = 0
                 THEN 1 ELSE 0]
    IN  BStrip([i \in 1..Len(a) |-> (s[i] - c[i] + Base) % Base])

BShift(a, n) == IF a = <<>> THEN <<>> ELSE [i \in 1..n |-> 0] \o a

\* a * k for 0 <= k <= Base
BMulSmall(a, k) ==
    BAdd([i \in 1..Len(a) |-> (a[i] * k) % Base],
         [i \in 1..(Len(a) + 1) |-> IF i = 1 THEN 0 ELSE (a[i - 1] * k) \div Base])

\* the sum of the digit products a[i] * b[k + 1 - i]
RECURSIVE ColSum(_, _, _, _)
ColSum(a, b, k, i) ==
    IF i > Len(a) THEN 0
    ELSE (IF k + 1 - i >= 1 /\ k + 1 - i <= Len(b) THEN a[i] * b[k + 1 - i] ELSE 0)
         + ColSum(a, b, k, i + 1)

\* a * b for operands of at most 20 digits each
BMul(a, b) ==
    LET n   == Len(a) + Len(b)
        col == Digits([k \in 1..n |-> ColSum(a, b, k, 1)], n)
    IN  BAdd(BAdd([k \in 1..n |-> col[k] % Base],
                  [k \in 1..(n + 1) |->
                      IF k = 1 THEN 0 ELSE (col[k - 1] \div Base) % Base]),
             [k \in 1..(n + 2) |->
                 IF k <= 2 THEN 0 ELSE col[k - 2] \div (Base * Base)])

\* <<quotient, remainder>> of a by the small number k, 0 < k <= Base
RECURSIVE BDivSmallFrom(_, _, _, _)
BDivSmallFrom(a, k, i, r) ==
    IF i = 0 THEN <<<<>>, r>>
    ELSE LET cur  == r * Base + a[i]
             rest == BDivSmallFrom(a, k, i - 1, cur % k)
         IN  <<Append(rest[1], cur \div k), rest[2]>>

BDivSmall(a, k) ==
    LET qr == BDivSmallFrom(a, k, Len(a), 0)
    IN  <<BStrip(qr[1]), NatOf(qr[2])>>

\* the largest digit q <= qhat with b * q <= r
RECURSIVE BFixDigit(_, _, _)
BFixDigit(r, b, qhat) ==
    IF BLe(BMulSmall(b, qhat), r) THEN qhat ELSE BFixDigit(r, b, qhat - 1)

BQuoDigit(r, b) ==
    LET n == Len(b)
    IN  IF Len(r) < n THEN 0
        ELSE LET rt == Limb(r, n + 1) * Base + r[n]
             IN  BFixDigit(r, b, MinOf(Base - 1, rt \div b[n]))

\* schoolbook division: <<quotient, remainder>> of the digits i..Len(a)
\* of a by b
RECURSIVE BLongDiv(_, _, _)
BLongDiv(a, b, i) ==
    IF i > Len(a) THEN <<<<>>, <<>>>>
    ELSE LET prev == BLongDiv(a, b, i + 1)
             cur  == BStrip(<<a[i]>> \o prev[2])
             q    == BQuoDigit(cur, b)
         IN  <<<<q>> \o prev[1], BSub(cur, BMulSmall(b, q))>>

\* <<quotient, remainder>> of a by b, b > 0
BDivMod(a, b) ==
    IF BLt(a, b) THEN <<BZero, a>>
    ELSE IF Len(b) = 1 THEN BDivSmall(a, b[1])
    ELSE LET f  == Base \div (b[Len(b)] + 1)
             qr == BLongDiv(BMulSmall(a, f), BMulSmall(b, f), 1)
         IN  <<BStrip(qr[1]), BDivSmall(qr[2], f)[1]>>

BIsOdd(a) == a # <<>> /\ a[1] % 2 = 1

\* 10^n
BPow10(n) == BShift(<<10 ^ (n % 4)>>, n \div 4)


-----------------------------------------------------------------------------
(* 64-bit unsigned arithmetic (math/bits).                                 *)

\* 2^64 = 18446744073709551616
Two64 == <<1616, 955, 737, 6744, 1844>>

\* the value of a uint64 expression after wrap-around
Wrap64(a) == IF BLt(a, Two64) THEN a ELSE BDivMod(a, Two64)[2]

\* bits.Mul64: the 128-bit product x * y as (hi, lo)
Mul64(x, y) ==
    LET p == BMul(x, y)
    IN  IF BLt(p, Two64) THEN [hi |-> BZero, lo |-> p]
        ELSE LET qr == BDivMod(p, Two64) IN [hi |-> qr[1], lo |-> qr[2]]

\* bits.Div64: quotient and remainder of (hi, lo) by y; it panics
\* (ok = FALSE) when y = 0 or y <= hi
Div64(hi, lo, y) ==
    IF BIsZero(y) \/ BLe(y, hi) THEN [ok |-> FALSE, q |-> BZero, r |-> BZero]
    ELSE LET n  == IF BIsZero(hi) THEN lo ELSE BAdd(BMul(hi, Two64), lo)
             qr == BDivMod(n, y)
         IN  [ok |-> TRUE, q |-> qr[1], r |-> qr[2]]

\* x << 1
Shl1(x) == Wrap64(BMulSmall(x, 2))

-----------------------------------------------------------------------------
(* Constants of the packed layout.                                         *)

sign == {63}

loss == {62}

LenTenPow == 20

tenPow == [i \in 0..(LenTenPow - 1) |-> BPow10(i)]

decimal_min_e == -16

decimal_max_e == 15

decimal_bit_e == 57

\* 0x01ffffffffffffff = 2^57 - 1 = 144115188075855871
MaxInt == <<5871, 7585, 1880, 4115, 14>>

\* Sentinel exponents of the magic values.  The code uses math.MinInt64 and
\* math.MaxInt64; it only ever compares an exponent with them, so the least
\* and greatest integers TLC can hold stand for them here.
MinInt64 == -2147483647

MaxInt64 == 2147483647

\* the exponent bits 57..61 holding e: uint64(e<<decimal_bit_e) & decimal_e_bitmask
EBits(e) == {decimal_bit_e + i : i \in {j \in 0..4 : ((e % 32) \div (2 ^ j)) % 2 = 1}}

\* the bits 57..63 of a number n < 128 placed at 57..63
HiBits(n) == {decimal_bit_e + i : i \in {j \in 0..6 : (n \div (2 ^ j)) % 2 = 1}}

\* the signed exponent stored in the bits 57..61 of hi
EField(hi) ==
    LET f == (IF 57 \in hi THEN 1 ELSE 0) + (IF 58 \in hi THEN 2 ELSE 0)
             + (IF 59 \in hi THEN 4 ELSE 0) + (IF 60 \in hi THEN 8 ELSE 0)
             + (IF 61 \in hi THEN 16 ELSE 0)
    IN  IF f >= 16 THEN f - 32 ELSE f

Word(neg, hi, lo) == [neg |-> neg, hi |-> hi, lo |-> lo]

Null == Word(FALSE, {}, BZero)

Zero == Word(TRUE, {63}, BZero)

NearZero == Word(TRUE, {62}, BZero)

NearPositiveZero == Word(FALSE, {62, 61}, BZero)

NearNegativeZero == Word(TRUE, {62, 61}, BZero)

PositiveInfinity == Word(FALSE, {62, 60, 59, 58, 57}, BZero)

NegativeInfinity == Word(TRUE, {62, 60, 59, 58, 57}, BZero)

NaN == Word(FALSE, {62, 57}, BZero)

\* Decimal(i) for a native integer i given by sign and magnitude, 0 < |i| <= MaxInt
IntWord(neg, n) == Word(neg, {}, n)

\* -d on the int64 word
IntNeg(d) == IF d = Null \/ d = Zero THEN d ELSE [d EXCEPT !.neg = ~d.neg]

VME(v, m, e) == [v |-> v, m |-> m, e |-> e, ok |-> TRUE]

Panic == [v |-> {}, m |-> BZero, e |-> 0, ok |-> FALSE]

\* Decimal.vme
vme(d) ==
    LET v == IF d.neg THEN (d.hi \cap loss) \cup sign ELSE d.hi \cap loss
        e == EField(d.hi)
        m == d.lo
    IN  IF BIsZero(m) /\ e = decimal_min_e THEN VME(v, m, MinInt64)
        ELSE IF BIsZero(m) /\ e = decimal_max_e THEN VME(v, m, MaxInt64)
        ELSE VME(v, m, e)

-----------------------------------------------------------------------------
(* Normalization.                                                          *)

veNormalizeMagic(v, e, minE, maxE) ==
    IF v \cap loss = {} THEN VME(v, BZero, 0)
    ELSE IF e < minE THEN VME(v, BZero, minE)
    ELSE IF e > maxE THEN VME(v, BZero, maxE)
    ELSE IF e = 0 THEN VME(v \cup sign, BZero, e)
    ELSE VME(v, BZero, e)

\* the too-small-exponent half of vmeNormalizeExponent
NormalizeLow(v, m, e, minE) ==
    IF e < minE
    THEN IF minE - e < LenTenPow
         THEN LET p == tenPow[minE - e]
                  d == Div64(BZero, m, p)
              IN  IF ~d.ok THEN Panic
                  ELSE IF ~BIsZero(d.r)
                  THEN VME(v \cup loss,
                           IF BLe(p, Shl1(d.r)) THEN BAdd(d.q, BOne) ELSE d.q,
                           minE)
                  ELSE VME(v, d.q, minE)
         ELSE VME(v \cup loss, BZero, minE)
    ELSE VME(v, m, e)

\* the too-big-exponent half of vmeNormalizeExponent
NormalizeHigh(v, m, e, maxM, maxE) ==
    IF e > maxE
    THEN IF e - maxE < LenTenPow
         THEN LET hl == Mul64(m, tenPow[e - maxE])
              IN  IF BIsZero(hl.hi) \/ BLt(hl.lo, maxM)
                  THEN VME(v, hl.lo, maxE)
                  ELSE VME(v \cup loss, BZero, maxE)
         ELSE VME(v \cup loss, BZero, maxE)
    ELSE VME(v, m, e)

vmeNormalizeExponent(v, m, e, maxM, minE, maxE) ==
    LET low == NormalizeLow(v, m, e, minE)
    IN  IF ~low.ok THEN Panic ELSE NormalizeHigh(low.v, low.m, low.e, maxM, maxE)

\* the loop of vmeNormalize: divide m by 10 while it is above maxM or
\* divisible by 10
RECURSIVE NormalizeLoop(_, _, _, _, _)
NormalizeLoop(v, m, e, maxM, maxE) ==
    IF BLt(maxM, m) \/ (e <= maxE /\ BLt(NatOf(9), m) /\ ~BIsOdd(m))
    THEN LET d == Div64(BZero, m, NatOf(10))
         IN  IF ~BIsZero(d.r)
             THEN IF BLe(m, maxM) THEN VME(v, m, e)
                  ELSE LET rd == d.r[1]
                           qn == IF rd > 5 \/ (rd = 5 /\ BIsOdd(d.q))
                                 THEN BAdd(d.q, BOne) ELSE d.q
                       IN  NormalizeLoop(v \cup loss, qn, e + 1, maxM, maxE)
             ELSE NormalizeLoop(v, d.q, e + 1, maxM, maxE)
    ELSE VME(v, m, e)

\* a faulty NormalizeInteger: the integer form is never found
NormalizeIntegerNever(m, e, maxM) == <<>>

\* the attempt of vmeNormalize to hold an exact value as an integer with
\* exponent 0: the mantissa found, or <<>> when there is none
\* (a mantissa is never zero here)
NormalizeInteger(m, e, maxM) ==
    IF e = 0 THEN (IF BLe(m, maxM) THEN m ELSE <<>>)
    ELSE IF e > 0
    THEN IF e < LenTenPow
         THEN LET hl == Mul64(m, tenPow[e])
              IN  IF BIsZero(hl.hi) /\ BLe(hl.lo, maxM) THEN hl.lo ELSE <<>>
         ELSE <<>>
    ELSE IF ~BIsOdd(m) /\ e > -LenTenPow
    THEN LET d == Div64(BZero, m, tenPow[-e])
         IN  IF BIsZero(d.r) /\ BLe(d.q, maxM) THEN d.q ELSE <<>>
    ELSE <<>>

vmeNormalize(v, m, e, maxM, minE, maxE) ==
    IF BIsZero(m) THEN veNormalizeMagic(v, e, minE, maxE)
    ELSE LET i == IF v \cap loss = {} THEN NormalizeInteger(m, e, maxM) ELSE <<>>
         IN  IF i # <<>> THEN VME(v, i, 0)
             ELSE LET nl == NormalizeLoop(v, m, e, maxM, maxE)
                  IN  vmeNormalizeExponent(nl.v, nl.m, nl.e, maxM, minE, maxE)

\* vmeAsDecimal: the Decimal word of a tuple.  The packing ORs the mantissa
\* into the word, so a mantissa above MaxInt spills into the bits 57..63.
PackWord(v, m, e) ==
    LET big == BLt(MaxInt, m)
        qr  == BDivMod(m, BAdd(MaxInt, BOne))
        low == IF big THEN qr[2] ELSE m
        u   == v \cup EBits(e) \cup (IF big THEN HiBits(qr[1][1]) ELSE {})
    IN  IF u \cap sign # {}
        THEN IF u = sign /\ BIsZero(low) THEN Null ELSE Word(TRUE, u \ sign, low)
        ELSE Word(FALSE, u, low)

vmeAsDecimal(v, m, e) ==
    IF BIsZero(m) /\ v \cap loss = {}
    THEN IF v = {} /\ e = 0 THEN Null ELSE Zero
    ELSE LET n == vmeNormalize(v, m, e, MaxInt, decimal_min_e, decimal_max_e)
         IN  PackWord(n.v, n.m, n.e)

-----------------------------------------------------------------------------
(* Addition.                                                               *)

Xor(a, b) == (a \ b) \cup (b \ a)

MinIn(S) == CHOOSE x \in S : \A y \in S : x <= y

\* the first index k in from..to with h < tenPow[k], or -1 when there is none
FirstAbove(h, from, to) ==
    LET S == {k \in from..to : BLt(h, tenPow[k])}
    IN  IF S = {} THEN -1 ELSE MinIn(S)

\* a faulty vmeAddMagic1: the magic operand d1 always absorbs the other one
vmeAddMagic1Absorbing(v1, e1, v2, m2, e2) == VME(v1, BZero, e1)

\* a faulty vmeAddMagic1: a near zero added to any magic operand returns
\* that operand, the signs of two signed near zeros are not reconciled
vmeAddMagic1Unreconciled(v1, e1, v2, m2, e2) ==
    IF e1 = 0 \/ e1 = MinInt64
    THEN IF BIsZero(m2) /\ v2 \cap loss # {} THEN VME(v2, m2, e2)
         ELSE IF v2 \cup sign = sign /\ BIsZero(m2) /\ e2 = 0
              THEN VME(v1, BZero, e1)
              ELSE VME(v2 \cup loss, m2, e2)
    ELSE IF e1 = MaxInt64
    THEN IF BIsZero(m2) /\ v2 \cap loss # {}
         THEN IF e2 = MaxInt64
              THEN IF Xor(v1, v2) \cap sign = {} THEN VME(v2, m2, e2)
                   ELSE VME(loss, BZero, 1)
              ELSE IF e2 = MinInt64 THEN VME(v1, BZero, e1)
              ELSE VME(v2, m2, e2)
         ELSE VME(v1, BZero, e1)
    ELSE VME(v1, BZero, e1)

\* d1 is magic (m1 = 0, loss set); v2 is the v of the result so far
vmeAddMagic1(v1, e1, v2, m2, e2) ==
    IF e1 = 0 \/ e1 = MinInt64
    THEN IF BIsZero(m2) /\ v2 \cap loss # {}
         THEN IF v2 = sign \cup loss /\ e2 = 0 THEN VME(v2, m2, e2)
              ELSE IF e2 = MinInt64
              THEN IF Xor(v1, v2) \cap sign = {} THEN VME(v2, m2, e2)
                   ELSE VME(sign \cup loss, BZero, 0)
              ELSE VME(v2, m2, e2)
         ELSE IF v2 \cup sign = sign /\ BIsZero(m2) /\ e2 = 0
              THEN VME(v1, BZero, e1)
              ELSE VME(v2 \cup loss, m2, e2)
    ELSE IF e1 = MaxInt64
    THEN IF BIsZero(m2) /\ v2 \cap loss # {}
         THEN IF e2 = MaxInt64
              THEN IF Xor(v1, v2) \cap sign = {} THEN VME(v2, m2, e2)
                   ELSE VME(loss, BZero, 1)
              ELSE IF e2 = MinInt64 THEN VME(v1, BZero, e1)
              ELSE VME(v2, m2, e2)
         ELSE VME(v1, BZero, e1)
    ELSE VME(v1, BZero, e1)

\* one halving step of the search of vmeAdd in tenPow: the pair <<i, j>>
SearchStep(h2, ij) ==
    LET k == (ij[1] + ij[2]) \div 2
    IN  IF BLt(h2, tenPow[k]) THEN <<ij[1], k>> ELSE <<k, ij[2]>>

\* vmeAdd brings m2 to the exponent e1 < e2 (e2 - e1 < len(tenPow)); when
\* the scaled m2 does not fit 64 bits both mantissas are divided by a power
\* of ten
AddAlign(m1, m2, e1, e2) ==
    IF e1 < e2
    THEN LET hl == Mul64(m2, tenPow[e2 - e1])
         IN  IF ~BIsZero(hl.hi)
             THEN LET ij == SearchStep(hl.hi, SearchStep(hl.hi,
                                SearchStep(hl.hi, <<1, LenTenPow - 1>>)))
                      k  == FirstAbove(hl.hi, ij[1], ij[2])
                  IN  IF k = -1
                      THEN [m1 |-> m1, m2 |-> m2, e |-> e1, lossy |-> FALSE]
                      ELSE LET q2 == Div64(hl.hi, hl.lo, tenPow[k])
                               q1 == Div64(BZero, m1, tenPow[k])
                           IN  [m1 |-> q1.q, m2 |-> q2.q, e |-> e1 + k,
                                lossy |-> ~BIsZero(q2.r) \/ ~BIsZero(q1.r)]
             ELSE [m1 |-> m1, m2 |-> hl.lo, e |-> e1, lossy |-> FALSE]
    ELSE [m1 |-> m1, m2 |-> m2, e |-> e1, lossy |-> FALSE]

\* vmeAdd for two operands with nonzero mantissas, x.e <= y.e; v0 is the
\* unit part of v
AddOrdinary(v0, x, y) ==
    IF x.e < y.e /\ y.e - x.e >= LenTenPow THEN VME(y.v \cup loss, y.m, y.e)
    ELSE LET al   == AddAlign(x.m, y.m, x.e, y.e)
             same == Xor(x.v, y.v) \cap sign = {}
             m    == IF same THEN Wrap64(BAdd(al.m1, al.m2))
                     ELSE IF BLt(al.m1, al.m2) THEN BSub(al.m2, al.m1)
                     ELSE BSub(al.m1, al.m2)
             vs   == IF ~same /\ BLt(al.m1, al.m2) THEN y.v \cap sign
                     ELSE x.v \cap sign
             v    == v0 \cup (IF al.lossy THEN loss ELSE {}) \cup vs
                        \cup (loss \cap (x.v \cup y.v))
         IN  IF BIsZero(m) THEN VME(v \cup sign, m, 0) ELSE VME(v, m, al.e)

vmeAdd(v1, m1, e1, v2, m2, e2) ==
    LET v0 == v1 \ (sign \cup loss)
        x  == IF e1 > e2 THEN [v |-> v2, m |-> m2, e |-> e2]
              ELSE [v |-> v1, m |-> m1, e |-> e1]
        y  == IF e1 > e2 THEN [v |-> v1, m |-> m1, e |-> e1]
              ELSE [v |-> v2, m |-> m2, e |-> e2]
    IN  IF BIsZero(x.m)
        THEN IF x.v \cap loss # {}
             THEN vmeAddMagic1(x.v, x.e, v0 \cup (y.v \cap (sign \cup loss)), y.m, y.e)
             ELSE VME(v0 \cup (y.v \cap (sign \cup loss)), y.m, y.e)
        ELSE IF BIsZero(y.m)
        THEN IF y.v \cap loss # {}
             THEN vmeAddMagic1(y.v, y.e, v0 \cup (x.v \cap (sign \cup loss)), x.m, x.e)
             ELSE VME(v0 \cup (x.v \cap (sign \cup loss)), x.m, x.e)
        ELSE AddOrdinary(v0, x, y)

-----------------------------------------------------------------------------
(* Multiplication.                                                         *)

\* the second reduction of vmhmeReduce, for a high word that no power of
\* ten of the table exceeds
ReduceTwice(v, mh, m, e) ==
    LET h  == Div64(BZero, mh, NatOf(10))
        l  == Div64(h.r, m, NatOf(10))
        qm == IF ~BIsZero(l.r) /\ BLe(NatOf(5), l.r)
              THEN Wrap64(BAdd(l.q, BOne)) ELSE l.q
        d  == Div64(h.q, qm, tenPow[LenTenPow - 1])
    IN  IF ~d.ok THEN Panic
        ELSE VME(IF ~BIsZero(l.r) \/ ~BIsZero(d.r) THEN v \cup loss ELSE v,
                 d.q, e + 1 + (LenTenPow - 1))

vmhmeReduce(v, mh, m, e) ==
    IF BIsZero(mh) THEN VME(v, m, e)
    ELSE LET i == FirstAbove(mh, 0, LenTenPow - 1)
         IN  IF i = -1 THEN ReduceTwice(v, mh, m, e)
             ELSE LET d == Div64(mh, m, tenPow[i])
                  IN  IF ~BIsZero(d.r)
                      THEN VME(v \cup loss,
                               IF BLe(tenPow[i], Shl1(d.r))
                               THEN Wrap64(BAdd(d.q, BOne)) ELSE d.q,
                               e + i)
                      ELSE VME(v, d.q, e + i)

\* d1 is magic (m1 = 0, loss set)
vmeMulMagic1(v1, e1, v2, m2, e2) ==
    IF e1 = 0
    THEN IF BIsZero(m2)
         THEN IF v2 \cap loss # {}
              THEN IF e2 # 0 /\ e2 # MinInt64 THEN VME(loss, BZero, 1)
                   ELSE VME(sign \cup loss, BZero, 0)
              ELSE VME(sign, BZero, 0)
         ELSE VME(sign \cup loss, BZero, 0)
    ELSE IF e1 = MinInt64
    THEN IF BIsZero(m2)
         THEN IF v2 \cap loss # {}
              THEN IF e2 # 0 /\ e2 # MinInt64 THEN VME(loss, BZero, 1)
                   ELSE IF e2 = 0 THEN VME(sign \cup loss, BZero, 0)
                   ELSE VME((Xor(v1, v2) \cap sign) \cup loss, BZero, MinInt64)
              ELSE VME(sign, BZero, 0)
         ELSE VME((Xor(v1, v2) \cap sign) \cup loss, BZero, MinInt64)
    ELSE IF e1 = MaxInt64
    THEN IF BIsZero(m2)
         THEN IF v2 \cap loss # {}
              THEN IF e2 = 0 \/ e2 # MaxInt64 THEN VME(loss, BZero, 1)
                   ELSE VME((Xor(v1, v2) \cap sign) \cup loss, BZero, MaxInt64)
              ELSE VME(loss, BZero, 1)
         ELSE VME((Xor(v1, v2) \cap sign) \cup loss, BZero, MaxInt64)
    ELSE VME(loss, BZero, 1)

vmeMul(v1, m1, e1, v2, m2, e2) ==
    IF BIsZero(m1)
    THEN IF v1 \cap loss # {} THEN vmeMulMagic1(v1, e1, v2, m2, e2)
         ELSE VME(sign, BZero, 0)
    ELSE IF BIsZero(m2)
    THEN IF v2 \cap loss # {} THEN vmeMulMagic1(v2, e2, v1, m1, e1)
         ELSE VME(sign, BZero, 0)
    \* the exponents of two nonzero mantissas are far from the int64 limits:
    \* the overflow returns of e1 + e2 are never taken
    ELSE LET v  == (v1 \ (sign \cup loss)) \cup ((v1 \cup v2) \cap loss)
                      \cup (Xor(v1, v2) \cap sign)
             hl == Mul64(m1, m2)
         IN  vmhmeReduce(v, hl.hi, hl.lo, e1 + e2)

-----------------------------------------------------------------------------
(* Division.                                                               *)

DR(v, m, e, r, re) == [v |-> v, m |-> m, e |-> e, r |-> r, re |-> re, ok |-> TRUE]

PanicDR == [v |-> {}, m |-> BZero, e |-> 0, r |-> BZero, re |-> 0, ok |-> FALSE]

\* a faulty vmeDivRemMagic2: a magic divisor always gives NaN
vmeDivRemMagic2AlwaysNaN(v1, m1, e1, v2, e2) == DR(loss, BZero, 1, BZero, 0)

\* d2 is magic (m2 = 0, loss set)
vmeDivRemMagic2(v1, m1, e1, v2, e2) ==
    IF e2 = 0 THEN DR(loss, BZero, 1, BZero, 0)
    ELSE IF e2 = MinInt64
    THEN IF BIsZero(m1)
         THEN IF v1 \cap loss # {}
              THEN IF e1 = 0 \/ e1 = MinInt64 THEN DR(loss, BZero, 1, BZero, 0)
                   ELSE IF e1 = MaxInt64
                   THEN DR(loss \cup (Xor(v1, v2) \cap sign), BZero, MaxInt64, BZero, 0)
                   ELSE DR(loss, BZero, 1, BZero, 0)
              ELSE DR(loss, BZero, 1, BZero, 0)
         ELSE DR(loss \cup (Xor(v1, v2) \cap sign), BZero, MaxInt64, BZero, 0)
    ELSE IF e2 = MaxInt64
    THEN IF BIsZero(m1)
         THEN IF v1 \cap loss # {}
              THEN IF e1 = 0 THEN DR(sign \cup loss, BZero, 0, BZero, 0)
                   ELSE IF e1 = MinInt64
                   THEN DR(loss \cup (v1 \cap v2 \cap sign), BZero, MinInt64, BZero, 0)
                   ELSE IF e1 = MaxInt64 THEN DR(loss, BZero, 1, BZero, 0)
                   ELSE DR(loss, BZero, 1, BZero, 0)
              ELSE DR(sign \cup loss, BZero, 0, BZero, 0)
         ELSE DR(loss \cup (Xor(v1, v2) \cap sign), BZero, MinInt64, BZero, 0)
    ELSE DR(loss, BZero, 1, BZero, 0)

\* the "avoid panic if m2 <= h1" step of vmeDivRem: the dividend as
\* [hi, lo, e, lossy]
DivReduce(h1, l1, m2, e) ==
    IF BLe(m2, h1)
    THEN LET i == FirstAbove(h1, 0, LenTenPow - 1)
         IN  IF i = -1 THEN [hi |-> h1, lo |-> l1, e |-> e, lossy |-> FALSE]
             ELSE LET d == Div64(h1, l1, tenPow[i])
                  IN  [hi |-> BZero, lo |-> d.q, e |-> e + i,
                       lossy |-> ~BIsZero(d.r)]
    ELSE [hi |-> h1, lo |-> l1, e |-> e, lossy |-> FALSE]

\* the correction of vmeDivRem for a negative power-of-ten index: re is
\* below -precision by the index cut off; tenPow is indexed unchecked
DivFix(v, m, e, r, re, m2, e2, precision) ==
    IF re < -precision
    THEN LET i == (-precision) - re
         IN  IF i >= LenTenPow THEN PanicDR
             ELSE LET x == Div64(BZero, m, tenPow[i])
                  IN  DR(v, Wrap64(BMul(x.q, tenPow[i])), e,
                         Wrap64(BAdd(r, Wrap64(BMul(x.r, m2)))), re + e2)
    ELSE DR(v, m, e, r, re + e2)

vmeDivRem(v1, m1, e1, v2, m2, e2, precision) ==
    IF BIsZero(m2)
    THEN IF v2 \cap loss # {} THEN vmeDivRemMagic2(v1, m1, e1, v2, e2)
         ELSE DR(loss, BZero, 1, BZero, 0)
    ELSE IF BIsZero(m1)
    THEN IF v1 \cap loss # {}
         THEN DR(loss \cup (Xor(v1, v2) \cap sign), BZero, e1, BZero, 0)
         ELSE DR(sign, BZero, 0, BZero, 0)
    ELSE LET v0      == ((v1 \cup v2) \cap loss) \cup (Xor(v1, v2) \cap sign)
             e0      == e1 - e2
             t0      == e0 + precision
             re      == IF t0 < 0 THEN (-precision) + t0 ELSE -precision
             tenPowI == IF t0 < 0 THEN 0
                        ELSE IF t0 >= LenTenPow THEN LenTenPow - 1 ELSE t0
             hl      == Mul64(m1, tenPow[tenPowI])
             n       == DivReduce(hl.hi, hl.lo, m2, e0 - tenPowI)
             d       == Div64(n.hi, n.lo, m2)
         IN  IF ~d.ok THEN PanicDR
             ELSE DivFix(IF n.lossy THEN v0 \cup loss ELSE v0, d.q, n.e, d.r,
                         re, m2, e2, precision)

-----------------------------------------------------------------------------
(* Rounding.                                                               *)

\* m + 1 when up, else m
Bump(m, up) == IF up THEN Wrap64(BAdd(m, BOne)) ELSE m

vmeRound(v, m, e, places) ==
    IF BIsZero(m)
    THEN IF e = 0 \/ e = MinInt64 THEN VME(sign, BZero, 0) ELSE VME(v, m, e)
    ELSE IF e + places < 0
    THEN IF -(e + places) < LenTenPow
         THEN LET p == tenPow[-(e + places)]
                  d == Div64(BZero, m, p)
              IN  IF BLt(Shl1(m), p) THEN VME(sign, BZero, 0)
                  ELSE VME(v \ loss,
                           Bump(d.q, BLt(p, Shl1(d.r))
                                     \/ (Shl1(d.r) = p /\ v \cap sign = {})),
                           -places)
         ELSE VME(sign, BZero, 0)
    ELSE VME(v \ loss, m, e)

vmeRoundBank(v, m, e, places) ==
    IF BIsZero(m)
    THEN IF e = 0 \/ e = MinInt64 THEN VME(sign, BZero, 0) ELSE VME(v, m, e)
    ELSE IF e + places < 0
    THEN IF -(e + places) < LenTenPow
         THEN LET p == tenPow[-(e + places)]
                  d == Div64(BZero, m, p)
              IN  IF BLt(Shl1(m), p) THEN VME(sign, BZero, 0)
                  ELSE VME(v \ loss,
                           Bump(d.q, BLt(p, Shl1(d.r))
                                     \/ (Shl1(d.r) = p /\ BIsOdd(d.q))),
                           -places)
         ELSE VME(sign, BZero, 0)
    ELSE VME(v \ loss, m, e)

\* a faulty vmeRoundCeil: the operand is returned as it is
vmeRoundCeilUnchanged(v, m, e, places) == VME(v, m, e)

vmeRoundCeil(v, m, e, places) ==
    IF BIsZero(m)
    THEN IF e = 0 \/ e = MinInt64 THEN VME(sign, BZero, 0) ELSE VME(v, m, e)
    ELSE IF e + places < 0
    THEN IF -(e + places) < LenTenPow
         THEN LET p == tenPow[-(e + places)]
                  d == Div64(BZero, m, p)
              IN  IF BLt(Shl1(m), p)
                  THEN IF v \cap sign = {} THEN VME({}, BOne, -places)
                       ELSE VME(sign, BZero, 0)
                  ELSE VME(v \ loss,
                           Bump(d.q, ~BIsZero(d.r) /\ v \cap sign = {}),
                           -places)
         ELSE VME(sign, BZero, 0)
    ELSE VME(v \ loss, m, e)

vmeRoundFloor(v, m, e, places) ==
    IF BIsZero(m)
    THEN IF e = 0 \/ e = MinInt64 THEN VME(sign, BZero, 0) ELSE VME(v, m, e)
    ELSE IF e + places < 0
    THEN IF -(e + places) < LenTenPow
         THEN LET p == tenPow[-(e + places)]
                  d == Div64(BZero, m, p)
                  q == Bump(d.q, ~BIsZero(d.r) /\ v \cap sign # {})
              IN  IF BLt(Shl1(m), p)
                  THEN IF v \cap sign # {} THEN VME(sign, BOne, -places)
                       ELSE VME(sign, BZero, 0)
                  ELSE IF BIsZero(q) /\ places = 0 THEN VME(sign, q, 0)
                  ELSE VME(v \ loss, q, -places)
         ELSE VME(sign, BZero, 0)
    ELSE VME(v \ loss, m, e)

-----------------------------------------------------------------------------
(* The methods of Decimal.  A call yields [ok, d]: ok is FALSE when the    *)
(* call panics, and d is the Decimal returned otherwise.                   *)

DivisionPrecision == 16

Returns(d) == [ok |-> TRUE, d |-> d]

Panics == [ok |-> FALSE, d |-> Null]

\* the Decimal of the tuple t, unless the computation of t panicked
AsDecimal(t) == IF t.ok THEN Returns(vmeAsDecimal(t.v, t.m, t.e)) ELSE Panics

Add(x, y) ==
    AsDecimal(vmeAdd(vme(x).v, vme(x).m, vme(x).e, vme(y).v, vme(y).m, vme(y).e))

Sub(x, y) == Add(x, IntNeg(y))

Mul(x, y) ==
    AsDecimal(vmeMul(vme(x).v, vme(x).m, vme(x).e, vme(y).v, vme(y).m, vme(y).e))

Div(x, y) ==
    LET t == vmeDivRem(vme(x).v, vme(x).m, vme(x).e,
                       vme(y).v, vme(y).m, vme(y).e, DivisionPrecision)
    IN  IF ~t.ok THEN Panics
        ELSE IF ~BIsZero(t.r)
        THEN Returns(vmeAsDecimal(t.v \cup loss,
                                  Bump(t.m, BLe(vme(y).m, Shl1(t.r))), t.e))
        ELSE Returns(vmeAsDecimal(t.v, t.m, t.e))

\* [ok, q, r]: the quotient and the remainder
QuoRem(x, y, precision) ==
    LET t == vmeDivRem(vme(x).v, vme(x).m, vme(x).e,
                       vme(y).v, vme(y).m, vme(y).e, precision)
    IN  IF ~t.ok THEN [ok |-> FALSE, q |-> Null, r |-> Null]
        ELSE [ok |-> TRUE, q |-> vmeAsDecimal(t.v, t.m, t.e),
              r |-> vmeAsDecimal(t.v, t.r, t.re)]

Mod(x, y) ==
    LET qr == QuoRem(x, y, 0)
    IN  IF qr.ok THEN Returns(qr.r) ELSE Panics

Round(x, places) == AsDecimal(vmeRound(vme(x).v, vme(x).m, vme(x).e, places))

RoundCeil(x, places) ==
    AsDecimal(vmeRoundCeil(vme(x).v, vme(x).m, vme(x).e, places))

RoundFloor(x, places) ==
    AsDecimal(vmeRoundFloor(vme(x).v, vme(x).m, vme(x).e, places))

RoundBank(x, places) ==
    AsDecimal(vmeRoundBank(vme(x).v, vme(x).m, vme(x).e, places))

\* New(value, exp) for the int64 value of sign neg and magnitude n
New(neg, n, exp) ==
    IF BIsZero(n) THEN Zero
    ELSE vmeAsDecimal(IF neg THEN sign ELSE {}, n, exp)

\* NewFromInt(value) for the int64 value of sign neg and magnitude n
NewFromInt(neg, n) ==
    IF BIsZero(n) THEN Zero
    ELSE IF BLe(n, MaxInt) THEN IntWord(neg, n)
    ELSE vmeAsDecimal(IF neg THEN sign ELSE {}, n, 0)

IsExact(d) == d.hi \cap loss = {}

IsExactlyZero(d) == d = Null \/ d = Zero

\* uint64(d.Abs()) >> 56 when the mantissa is zero
TopByte(d) ==
    2 * ((IF 57 \in d.hi THEN 1 ELSE 0) + (IF 58 \in d.hi THEN 2 ELSE 0)
         + (IF 59 \in d.hi THEN 4 ELSE 0) + (IF 60 \in d.hi THEN 8 ELSE 0)
         + (IF 61 \in d.hi THEN 16 ELSE 0) + (IF 62 \in d.hi THEN 32 ELSE 0)
         + (IF 63 \in d.hi THEN 64 ELSE 0))

IsNaN(d) ==
    /\ BIsZero(d.lo)
    /\ \/ TopByte(d) >= 66 /\ TopByte(d) < 92
       \/ TopByte(d) >= 98 /\ TopByte(d) <= 126

-----------------------------------------------------------------------------
(* The binary encoding.  A byte is a number in 0..255 and an encoding a    *)
(* sequence of bytes.  The first byte holds the bits 56..63 of the word,   *)
(* its lowest bit telling whether a varint of the mantissa follows.        *)

NoError == "nil"

ErrFormat == "invalid format"

Two56 == <<7936, 3792, 5940, 2057, 7>>

\* byte(u >> (decimal_bit_e - 1)) for the word of bits hi and mantissa lo
ShiftedByte(hi, lo) ==
    (IF BLe(Two56, lo) THEN 1 ELSE 0)
    + (IF 57 \in hi THEN 2 ELSE 0) + (IF 58 \in hi THEN 4 ELSE 0)
    + (IF 59 \in hi THEN 8 ELSE 0) + (IF 60 \in hi THEN 16 ELSE 0)
    + (IF 61 \in hi THEN 32 ELSE 0) + (IF 62 \in hi THEN 64 ELSE 0)
    + (IF 63 \in hi THEN 128 ELSE 0)

\* the first byte without the sign bit of a negative word
FirstByteUnsigned(d) == ShiftedByte(d.hi, d.lo)

\* the byte x of MarshalBinary: the sign bit is or-ed in for a negative word
FirstByte(d) ==
    IF d.neg THEN ShiftedByte(d.hi \cup sign, d.lo) ELSE ShiftedByte(d.hi, d.lo)

\* x | 1
WithLowBit(x) == IF x % 2 = 1 THEN x ELSE x + 1

\* the value of a bignum below Base
Small(n) == IF BIsZero(n) THEN 0 ELSE n[1]

\* binary.PutUvarint: seven bits a byte, the lowest first, the high bit of
\* a byte set when another byte follows
RECURSIVE PutUvarint(_)
PutUvarint(n) ==
    IF BLt(n, NatOf(128))
    THEN <<Small(n)>>
    ELSE <<Small(BDivSmall(n, 128)[2]) + 128>>
         \o PutUvarint(BDivSmall(n, 128)[1])

MarshalBinary(d) ==
    [err  |-> NoError,
     data |-> IF BIsZero(d.lo)
              THEN <<FirstByte(d)>>
              ELSE <<WithLowBit(FirstByte(d))>> \o PutUvarint(d.lo)]

MaxVarintLen64 == 10

\* binary.Uvarint, the number of bytes read from the k-th byte on: 0 when
\* the buffer ends inside the number, -k when the number overflows 64 bits
RECURSIVE UvarintLen(_, _)
UvarintLen(buf, k) ==
    IF k > Len(buf) THEN 0
    ELSE IF k - 1 = MaxVarintLen64 THEN -k
    ELSE IF buf[k] < 128
         THEN IF k = MaxVarintLen64 /\ buf[k] > 1 THEN -k ELSE k
         ELSE UvarintLen(buf, k + 1)

\* 1 << s for the shifts s = 0, 7, ..., 63 of binary.Uvarint
Pow128 ==
    <<<<1>>,
      <<128>>,
      <<6384, 1>>,
      <<7152, 209>>,
      <<5456, 6843, 2>>,
      <<8368, 5973, 343>>,
      <<1104, 4651, 3980, 4>>,
      <<1312, 5342, 9499, 562>>,
      <<7936, 3792, 5940, 2057, 7>>,
      <<5808, 5477, 368, 3372, 922>>>>

\* the digit i of the sum of the seven-bit groups of the bytes k..n of buf,
\* each shifted to its place
RECURSIVE GroupSum(_, _, _, _)
GroupSum(buf, n, i, k) ==
    IF k > n THEN 0
    ELSE (buf[k] % 128) * Limb(Pow128[k], i) + GroupSum(buf, n, i, k + 1)

\* the number held by the first n bytes of buf
UvarintValue(buf, n) ==
    LET col == Digits([i \in 1..5 |-> GroupSum(buf, n, i, 1)], 5)
    IN  BAdd(BAdd([i \in 1..5 |-> col[i] % Base],
                  [i \in 1..6 |->
                      IF i = 1 THEN 0 ELSE (col[i - 1] \div Base) % Base]),
             [i \in 1..7 |->
                 IF i <= 2 THEN 0 ELSE col[i - 2] \div (Base * Base)])

Uvarint(buf) ==
    IF UvarintLen(buf, 1) <= 0
    THEN [m |-> BZero, n |-> UvarintLen(buf, 1)]
    ELSE [m |-> UvarintValue(buf, UvarintLen(buf, 1)),
          n |-> UvarintLen(buf, 1)]

\* the test of UnmarshalBinary on the count n returned by binary.Uvarint
VarintRejectedWhenNegative(n) == n < 0

VarintRejected(n) == n <= 0

\* the word of the uint64 u of bits hi and mantissa lo, as UnmarshalBinary
\* stores it
Stored(hi, lo) ==
    IF hi \cap sign # {} /\ ~(hi = sign /\ BIsZero(lo))
    THEN Word(TRUE, hi \ sign, lo)
    ELSE IF hi \cap sign # {} THEN Zero ELSE Word(FALSE, hi, lo)

\* <<m >> 57, m & MaxInt>>
DivPow2(m) == IF BLt(MaxInt, m) THEN BDivMod(m, BAdd(MaxInt, BOne)) ELSE <<BZero, m>>

\* u | m for the varint m: its bits above the mantissa fall on the exponent
Merged(top, m) ==
    Stored(HiBits(top \div 2) \cup HiBits(Small(DivPow2(m)[1])), DivPow2(m)[2])

\* d.UnmarshalBinary(data): the error returned and the receiver afterwards
UnmarshalBinary(d, data) ==
    IF Len(data) = 0 THEN [err |-> ErrFormat, d |-> d]
    ELSE IF data[1] % 2 = 1
         THEN IF VarintRejected(Uvarint(Tail(data)).n)
              THEN [err |-> ErrFormat, d |-> d]
              ELSE [err |-> NoError,
                    d   |-> Merged(data[1], Uvarint(Tail(data)).m)]
         ELSE [err |-> NoError, d |-> Stored(HiBits(data[1] \div 2), BZero)]

-----------------------------------------------------------------------------
(* The text representation.  A text is a sequence of characters, each a    *)
(* string of length one.                                                   *)

DigitChars == <<"0", "1", "2", "3", "4", "5", "6", "7", "8", "9">>

\* the digit of m that the division by tenPow[i] leaves in vmetBytes
DigitAt(m, i) == (Limb(m, (i \div 4) + 1) \div (10 ^ (i % 4))) % 10

\* the flag output of vmetBytes when its loop reaches tenPow[i]: a digit or
\* the decimal point was written for some higher power
Output(m, e, i) ==
    \E k \in (i + 1)..(LenTenPow - 1) : DigitAt(m, k) > 0 \/ k + e <= 0

\* what one turn of the loop of vmetBytes appends
Piece(m, e, i) ==
    (IF i + e + 1 = 0
     THEN IF Output(m, e, i) THEN <<".">> ELSE <<"0", ".">>
     ELSE <<>>)
    \o (IF Output(m, e, i) \/ i + e + 1 = 0 \/ DigitAt(m, i) > 0 \/ i + e <= 0
        THEN <<DigitChars[DigitAt(m, i) + 1]>>
        ELSE <<>>)

RECURSIVE Pieces(_, _, _)
Pieces(m, e, i) ==
    IF i < 0 THEN <<>> ELSE Piece(m, e, i) \o Pieces(m, e, i - 1)

\* the zeros with the last one left out
ZerosOneShort(n) == [k \in 1..(n - 1) |-> "0"]

\* the zeros written after the digits for a positive exponent
Zeros(n) == [k \in 1..n |-> "0"]

veMagicBytes(v, e, ext) ==
    IF ext
    THEN IF e = MaxInt64
         THEN (IF v \cap sign # {} THEN <<"-">> ELSE <<"+">>) \o <<"I", "n", "f">>
         ELSE IF e = 0 THEN <<"~", "0">>
         ELSE IF e > MinInt64 THEN <<"N", "a", "N">>
         ELSE (IF v \cap sign # {} THEN <<"-">> ELSE <<"+">>) \o <<"~", "0">>
    ELSE IF e = 0 \/ e = MinInt64 THEN <<"0">> ELSE <<"n", "u", "l", "l">>

\* vmetBytes with no places, no unit and no quotes
vmetBytes(v, m, e, ext) ==
    IF ~BIsZero(m)
    THEN (IF ext /\ v \cap loss # {} THEN <<"~">> ELSE <<>>)
         \o (IF v \cap sign # {} THEN <<"-">> ELSE <<>>)
         \o Pieces(m, e, LenTenPow - 1)
         \o Zeros(e)
    ELSE IF v \cap loss # {} THEN veMagicBytes(v, e, ext) ELSE <<"0">>

String(d) ==
    IF d = Null THEN <<"0">>
    ELSE vmetBytes(vme(d).v, vme(d).m, vme(d).e, TRUE)
ErrSyntax == "invalid syntax"

ErrUnitSyntax == "invalid unit syntax"

\* the characters of code 32 to 95, in the order of their codes
Ascii ==
    <<" ", "!", "\"", "#", "$", "%", "&", "'", "(", ")", "*", "+", ",",
      "-", ".", "/", "0", "1", "2", "3", "4", "5", "6", "7", "8", "9", ":",
      ";", "<", "=", ">", "?", "@", "A", "B", "C", "D", "E", "F", "G", "H",
      "I", "J", "K", "L", "M", "N", "O", "P", "Q", "R", "S", "T", "U", "V",
      "W", "X", "Y", "Z", "[", "\\", "]", "^", "_">>

\* the characters of code 97 to 126
AsciiLow ==
    <<"a", "b", "c", "d", "e", "f", "g", "h", "i", "j", "k", "l", "m", "n",
      "o", "p", "q", "r", "s", "t", "u", "v", "w", "x", "y", "z", "{", "|",
      "}", "~">>

\* the code of unicode.ToLower(c)
LowerCode(c) ==
    IF \E n \in 1..Len(AsciiLow) : AsciiLow[n] = c
    THEN 96 + (CHOOSE n \in 1..Len(AsciiLow) : AsciiLow[n] = c)
    ELSE LET k == 31 + (CHOOSE n \in 1..Len(Ascii) : Ascii[n] = c)
         IN  IF k >= 65 /\ k <= 90 THEN k + 32 ELSE k

IsDigit(c) == \E n \in 1..10 : DigitChars[n] = c

DigitOf(c) == (CHOOSE n \in 1..10 : DigitChars[n] = c) - 1

\* bytes.TrimSpace
TrimSpace(b) ==
    LET ns == {k \in 1..Len(b) : b[k] # " "}
    IN  IF ns = {} THEN <<>> ELSE SubSeq(b, MinIn(ns), MaxIn(ns))

primeUnicodeLo == 257

\* unitHash of a text of at most seven characters of code below 256: the
\* product h * primeUnicodeLo then stays below 2^64, its high word is zero
RECURSIVE unitHashFrom(_, _, _)
unitHashFrom(s, k, h) ==
    IF k > Len(s) THEN h
    ELSE IF s[k] = " " THEN unitHashFrom(s, k + 1, h)
    ELSE unitHashFrom(s, k + 1,
             BAdd(BMulSmall(h, primeUnicodeLo), NatOf(LowerCode(s[k]))))

unitHash(s) == unitHashFrom(s, 1, BZero)

\* what the parser returns: the tuple and the error, or a panic
Parsed(v, m, e, err) == [ok |-> TRUE, err |-> err, v |-> v, m |-> m, e |-> e]

IndexPanic == [ok |-> FALSE, err |-> NoError, v |-> {}, m |-> BZero, e |-> 0]

\* vmeUnitOrMagicFromBytes with no units
vmeUnitOrMagicFromBytes(b, v, m, e) ==
    IF ~BIsZero(unitHash(b))
    THEN IF BIsZero(m) /\ unitHash(b) \in {NatOf(28637), NatOf(8018001)}
         THEN Parsed(v, BOne, 0, NoError)
         ELSE IF BIsZero(m) /\ unitHash(b) \in {NatOf(28381), NatOf(7357755)}
         THEN IF v \cap loss # {} THEN Parsed(v, BZero, e, NoError)
              ELSE Parsed(sign, BZero, 0, NoError)
         ELSE IF BIsZero(m) /\ unitHash(b) = NatOf(7290429)
         THEN Parsed(loss, BZero, 1, NoError)
         ELSE IF BIsZero(m) /\ unitHash(b) \in {NatOf(7292483), NatOf(1874960827)}
         THEN Parsed({}, BZero, 0, NoError)
         ELSE IF BIsZero(m) /\ unitHash(b) = NatOf(6963517)
         THEN Parsed(v \cup loss, BZero, MaxInt64, NoError)
         ELSE Parsed(v, m, e, ErrUnitSyntax)
    ELSE Parsed(v, m, e, NoError)

\* the end of vmeFromBytes: a zero mantissa is given its sign and exponent,
\* and the bytes left from the i-th on are read as a unit or a magic word
ParseEnd(b, j, st) ==
    IF BIsZero(st.m) /\ st.v \cap loss # {} /\ st.sg
    THEN vmeUnitOrMagicFromBytes(SubSeq(b, st.i, j), st.v, st.m, MinInt64)
    ELSE IF BIsZero(st.m) /\ st.v \cap loss # {} /\ st.digit
    THEN vmeUnitOrMagicFromBytes(SubSeq(b, st.i, j), st.v \cup sign, st.m, 0)
    ELSE IF BIsZero(st.m) /\ st.v \cap loss = {} /\ st.digit
    THEN vmeUnitOrMagicFromBytes(SubSeq(b, st.i, j), sign, st.m, 0)
    ELSE vmeUnitOrMagicFromBytes(SubSeq(b, st.i, j), st.v, st.m, st.e)

\* the digits of the exponent from the i-th byte on
RECURSIVE ParseExpDigits(_, _, _, _, _)
ParseExpDigits(b, j, st, neg, x) ==
    IF st.i <= j /\ IsDigit(b[st.i])
    THEN ParseExpDigits(b, j, [st EXCEPT !.i = st.i + 1], neg,
                        10 * x + DigitOf(b[st.i]))
    ELSE ParseEnd(b, j, [st EXCEPT !.e = IF neg THEN st.e - x ELSE st.e + x])

\* the exponent marker at the i-th byte; the byte after it is read even when
\* the marker is the last byte
ParseExp(b, j, st) ==
    IF st.i + 1 > Len(b) THEN IndexPanic
    ELSE IF \/ st.i < j /\ b[st.i + 1] = "-"
            \/ b[st.i + 1] = "+"
            \/ IsDigit(b[st.i + 1])
    THEN IF b[st.i + 1] \in {"+", "-"}
         THEN IF st.i + 2 > j \/ ~IsDigit(b[st.i + 2])
              THEN Parsed({}, BZero, 0, ErrSyntax)
              ELSE ParseExpDigits(b, j, [st EXCEPT !.i = st.i + 2],
                                  b[st.i + 1] = "-", 0)
         ELSE IF st.i + 1 > j
              THEN Parsed({}, BZero, 0, ErrSyntax)
              ELSE ParseExpDigits(b, j, [st EXCEPT !.i = st.i + 1], FALSE, 0)
    ELSE ParseEnd(b, j, st)

\* one digit d of the mantissa
ParseDigit(st, d) ==
    IF BLt(BMulSmall(st.m, 10), Two64)
    THEN [st EXCEPT !.i = st.i + 1, !.digit = TRUE,
                    !.m = Wrap64(BAdd(BMulSmall(st.m, 10), NatOf(d))),
                    !.e = IF st.doti >= 0 /\ st.e <= 0 THEN st.e - 1
                          ELSE IF st.doti < 0 /\ st.e > 0 THEN st.e + 1
                          ELSE st.e]
    ELSE [st EXCEPT !.i = st.i + 1, !.digit = TRUE,
                    !.v = IF st.e >= 0 /\ d # 0 THEN st.v \cup loss ELSE st.v,
                    !.e = IF st.doti < 0 THEN st.e + 1 ELSE st.e]

\* the loop of vmeFromBytes over the bytes i..j
RECURSIVE ParseLoop(_, _, _)
ParseLoop(b, j, st) ==
    IF st.i > j THEN ParseEnd(b, j, st)
    ELSE IF IsDigit(b[st.i]) THEN ParseLoop(b, j, ParseDigit(st, DigitOf(b[st.i])))
    ELSE IF b[st.i] = "."
    THEN IF st.doti < 0
         THEN ParseLoop(b, j, [st EXCEPT !.doti = st.i, !.i = st.i + 1])
         ELSE Parsed({}, BZero, 0, ErrSyntax)
    ELSE IF b[st.i] \in {"e", "E"} THEN ParseExp(b, j, st)
    ELSE ParseEnd(b, j, st)

\* the state of the parser before its loop, the next byte being the i-th
ParseState(i, v, sg) ==
    [i |-> i, v |-> v, m |-> BZero, e |-> 0, doti |-> -1, sg |-> sg,
     digit |-> FALSE]

\* a '~' allowed after the sign
ParseSecondTilde(b, j, i, v, sg) ==
    IF b[i] = "~"
    THEN IF i + 1 > j THEN Parsed({}, BZero, 0, ErrSyntax)
         ELSE ParseLoop(b, j, ParseState(i + 1, v \cup loss, sg))
    ELSE ParseLoop(b, j, ParseState(i, v, sg))

\* the sign
ParseSign(b, j, i, v) ==
    IF b[i] \in {"+", "-"}
    THEN IF i + 1 > j THEN Parsed({}, BZero, 0, ErrSyntax)
         ELSE ParseSecondTilde(b, j, i + 1,
                               IF b[i] = "-" THEN v \cup sign ELSE v, TRUE)
    ELSE ParseSecondTilde(b, j, i, v, FALSE)

\* the bytes i..j of b, the quotes left out: a '~' allowed as the first byte
ParseFrom(b, i, j) ==
    IF i > j THEN Parsed({}, BZero, 0, NoError)
    ELSE IF b[i] = "~"
    THEN IF i + 1 > j THEN Parsed({}, BZero, 0, ErrSyntax)
         ELSE ParseSign(b, j, i + 1, loss)
    ELSE ParseSign(b, j, i, {})

Quoted(b) ==
    /\ Len(b) >= 2
    /\ \/ b[1] = "\"" /\ b[Len(b)] = "\""
       \/ b[1] = "'" /\ b[Len(b)] = "'"

vmeFromBytes(b) ==
    IF Quoted(TrimSpace(b))
    THEN ParseFrom(TrimSpace(b), 2, Len(TrimSpace(b)) - 1)
    ELSE ParseFrom(TrimSpace(b), 1, Len(TrimSpace(b)))

\* NewFromBytes: the word, the error, and whether the call returned
NewFromBytesOf(p) ==
    IF p.ok /\ p.err = NoError
    THEN [ok |-> TRUE, err |-> NoError, d |-> vmeAsDecimal(p.v, p.m, p.e)]
    ELSE [ok |-> p.ok, err |-> p.err, d |-> Null]

NewFromString(b) == NewFromBytesOf(vmeFromBytes(b))

-----------------------------------------------------------------------------
(* Negation and the comparisons.  Every comparison classifies the          *)
(* difference d1.Sub(d2); it returns [ok, r], r being the boolean or the   *)
(* integer the method returns.                                             *)

\* d == NearZero || d == -NearZero || d == NearPositiveZero || d == NearNegativeZero
IsNearZero(d) ==
    d \in {NearZero, IntNeg(NearZero), NearPositiveZero, NearNegativeZero}

IsZeroExactly(d) == IsExactlyZero(d)

IsZero(d) == IsExactlyZero(d) \/ IsNearZero(d)

\* d > 0 && !d.IsNaN(): the int64 word is positive
IsPositive(d) == ~d.neg /\ d # Null /\ ~IsNaN(d)

NegAlways(d) == IntNeg(d)

Neg(d) == IF IsExactlyZero(d) \/ d = NearZero THEN d ELSE IntNeg(d)

Answers(c, r) == [ok |-> c.ok, r |-> r]

Equal(d1, d2) == Answers(Sub(d1, d2), IsZero(Sub(d1, d2).d))

Classify(d) == IF IsZero(d) THEN 0 ELSE IF IsPositive(d) THEN 1 ELSE -1

Compare(d1, d2) == Answers(Sub(d1, d2), Classify(Sub(d1, d2).d))

GreatherThan(d1, d2) == Answers(Sub(d1, d2), IsPositive(Sub(d1, d2).d))

LessThan(d1, d2) == GreatherThan(d2, d1)

-----------------------------------------------------------------------------
(* Conversion to int64.  An int64 is [neg, n]: its sign and the bignum of  *)
(* its magnitude; the result of IntPartErr is [i, err].                    *)

ErrOutOfRange == "out of range"

\* 2^63 = 9223372036854775808
Two63 == <<5808, 5477, 368, 3372, 922>>

Int64Of(neg, n) == [neg |-> neg /\ ~BIsZero(n), n |-> n]

MathMinInt64 == Int64Of(TRUE, Two63)

MathMaxInt64 == Int64Of(FALSE, BSub(Two63, BOne))

\* ^uint64(sign|MaxInt)&uint64(d.Abs()) == 0
IsInteger(d) == d.hi \ sign = {}

Converted(i, err) == [i |-> i, err |-> err]

\* the extreme of the sign of d, with the error
Saturated(d) ==
    Converted(IF d.neg THEN MathMinInt64 ELSE MathMaxInt64, ErrOutOfRange)

\* hi == 0 && lo <= MaxInt
ProductFitsMantissa(p) == BIsZero(p.hi) /\ BLe(p.lo, MaxInt)

IntPartOfProduct(d, p) ==
    IF ProductFitsMantissa(p) THEN Converted(Int64Of(d.neg, p.lo), NoError)
    ELSE Saturated(d)

IntPartOfTuple(d, t) ==
    IF t.v \cap loss # {} /\ BIsZero(t.m)
    THEN IF t.e = decimal_max_e THEN Saturated(d)
         ELSE Converted(Int64Of(FALSE, BZero), ErrOutOfRange)
    ELSE IF t.e = 0 THEN Converted(Int64Of(d.neg, t.m), NoError)
    ELSE IF t.e > 0 THEN IntPartOfProduct(d, Mul64(t.m, tenPow[t.e]))
    ELSE Converted(Int64Of(d.neg, BDivMod(t.m, tenPow[-t.e])[1]), NoError)

IntPartErr(d) ==
    IF IsInteger(d)
    THEN IF d = Zero THEN Converted(Int64Of(FALSE, BZero), NoError)
         ELSE Converted(Int64Of(d.neg, d.lo), NoError)
    ELSE IntPartOfTuple(d, vme(d))

-----------------------------------------------------------------------------
(* Weights.  A Weight is a word like a Decimal, with a mantissa of 53 bits *)
(* in lo and the unit index in the bits 53..56 of hi; the v of its tuple   *)
(* carries the unit bits besides sign and loss.                            *)

\* WeightMaxInt = 0x001fffffffffffff = 2^53 - 1 = 9007199254740991
WeightMaxInt == <<991, 5474, 1992, 9007>>

weightMinE == -16

weightMaxE == 15

weightBitT == 53

weightTBitmask == {53, 54, 55, 56}

\* the conversion constants c of the units 0..15 (kg per unit as a power of
\* ten for the SI units, as a Decimal for the others; 10 and 11 are reserved)
weightUnits ==
    << [u |-> "kg", c |-> Null],
       [u |-> "t", c |-> IntWord(FALSE, NatOf(3))],
       [u |-> "kt", c |-> IntWord(FALSE, NatOf(6))],
       [u |-> "Mt", c |-> IntWord(FALSE, NatOf(9))],
       [u |-> "Gt", c |-> IntWord(FALSE, NatOf(12))],
       [u |-> "g", c |-> IntWord(TRUE, NatOf(3))],
       [u |-> "mg", c |-> IntWord(TRUE, NatOf(6))],
       [u |-> "ug", c |-> IntWord(TRUE, NatOf(9))],
       [u |-> "ng", c |-> IntWord(TRUE, NatOf(12))],
       [u |-> "pg", c |-> IntWord(TRUE, NatOf(15))],
       [u |-> "", c |-> Null],
       [u |-> "", c |-> Null],
       [u |-> "lb", c |-> Word(FALSE, {60, 61}, <<9237, 4535>>)],
       [u |-> "oz", c |-> Word(FALSE, {59, 61}, <<3125, 4952, 283>>)],
       [u |-> " lb t", c |-> Word(FALSE, {58, 59, 61}, <<7216, 3241, 37>>)],
       [u |-> " oz t", c |-> Word(FALSE, {58, 59, 61}, <<4768, 1103, 3>>)] >>

\* (u & weightTBitmask) >> weightBitT
UnitIndex(hi) ==
    (IF 53 \in hi THEN 1 ELSE 0) + (IF 54 \in hi THEN 2 ELSE 0)
    + (IF 55 \in hi THEN 4 ELSE 0) + (IF 56 \in hi THEN 8 ELSE 0)

\* the bits 53..63 of a number n < 2048 placed at 53..63
UnitBits(n) == {weightBitT + i : i \in {j \in 0..10 : (n \div (2 ^ j)) % 2 = 1}}

\* [v, m, e, t]: the tuple of the weight w and its unit
vmet(w) ==
    LET v == (IF w.neg THEN (w.hi \cap loss) \cup sign ELSE w.hi \cap loss)
                 \cup (w.hi \cap weightTBitmask)
        e == EField(w.hi)
        t == weightUnits[UnitIndex(w.hi) + 1]
    IN  IF BIsZero(w.lo) /\ e = weightMinE
        THEN [v |-> v, m |-> w.lo, e |-> MinInt64, t |-> t]
        ELSE IF BIsZero(w.lo) /\ e = weightMaxE
        THEN [v |-> v, m |-> w.lo, e |-> MaxInt64, t |-> t]
        ELSE [v |-> v, m |-> w.lo, e |-> e, t |-> t]

\* the packing of vmeAsWeight: the mantissa is ORed into the word, so a
\* mantissa above WeightMaxInt spills into the bits 53..63
PackWeight(v, m, e) ==
    LET big == BLt(WeightMaxInt, m)
        qr  == BDivMod(m, BAdd(WeightMaxInt, BOne))
        low == IF big THEN qr[2] ELSE m
        u   == v \cup EBits(e) \cup (IF big THEN UnitBits(qr[1][1]) ELSE {})
    IN  IF u \cap sign # {}
        THEN IF u = sign /\ BIsZero(low) THEN Null ELSE Word(TRUE, u \ sign, low)
        ELSE Word(FALSE, u, low)

vmeAsWeight(v, m, e) ==
    IF BIsZero(m) /\ v \cap loss = {}
    THEN IF v = {} /\ e = 0 THEN Null
         ELSE IF v \cap weightTBitmask = {} THEN Zero
         ELSE Word(FALSE, v \cap weightTBitmask, BZero)
    ELSE LET n == vmeNormalize(v, m, e, WeightMaxInt, weightMinE, weightMaxE)
         IN  PackWeight(n.v, n.m, n.e)

\* the Weight of the tuple t, unless the computation of t panicked
AsWeight(t) == IF t.ok THEN Returns(vmeAsWeight(t.v, t.m, t.e)) ELSE Panics

\* e + k on int64 for a small k: the sentinels MinInt64 and MaxInt64 are
\* the ends of the range, and the sum wraps around from one to the other
WrapExp(e, k) ==
    IF k > 0 /\ e > MaxInt64 - k
    THEN MinInt64 + ((k - 1) - (MaxInt64 - e))
    ELSE IF k < 0 /\ e < MinInt64 - k
    THEN MaxInt64 - (((-k) - 1) - (e - MinInt64))
    ELSE e + k

\* c.Int64() for the integer constant c of a unit
UnitExp(c) ==
    LET i == IntPartErr(c).i
    IN  IF i.n = <<>> THEN 0 ELSE IF i.neg THEN -(i.n[1]) ELSE i.n[1]

\* the first half of the conversion in Weight.Add: the operand of unit
\* constant c brought to kg
ToBaseUnit(v, m, e, c) ==
    IF IsInteger(c) THEN VME(v, m, WrapExp(e, UnitExp(c)))
    ELSE LET f == vme(c) IN vmeMul(v, m, e, f.v, f.m, f.e)

\* the second half: kg brought to the unit of constant c, the quotient
\* rounded to the nearest
FromBaseUnit(v, m, e, c) ==
    IF IsInteger(c) THEN VME(v, m, WrapExp(e, -UnitExp(c)))
    ELSE LET f == vme(c)
             t == vmeDivRem(v, m, e, f.v, f.m, f.e, DivisionPrecision)
         IN  IF ~t.ok THEN Panic
             ELSE IF ~BIsZero(t.r)
             THEN VME(t.v \cup loss, Bump(t.m, BLe(f.m, Shl1(t.r))), t.e)
             ELSE VME(t.v, t.m, t.e)

\* the right operand of Weight.Add in the unit of the left one
Converted2(b, c1) ==
    LET k == ToBaseUnit(b.v, b.m, b.e, b.t.c)
    IN  IF ~k.ok THEN Panic ELSE FromBaseUnit(k.v, k.m, k.e, c1)

WeightAddTuples(a, y) ==
    IF ~y.ok THEN Panics ELSE AsWeight(vmeAdd(a.v, a.m, a.e, y.v, y.m, y.e))

WeightAdd(w1, w2) ==
    LET a == vmet(w1)
    IN  WeightAddTuples(a, Converted2(vmet(w2), a.t.c))

WeightSub(w1, w2) == WeightAdd(w1, IntNeg(w2))

WeightMul(w, d) ==
    LET a == vmet(w)
        f == vme(d)
    IN  AsWeight(vmeMul(a.v, a.m, a.e, f.v, f.m, f.e))

\* Weight.Unit: the name of the unit of w
WeightUnit(w) == weightUnits[UnitIndex(w.hi) + 1].u

\* uint64(w) & loss on the two's complement word: for a negative w of
\* magnitude u the bit 62 of 2^64 - u, which is the bit 62 of u when the
\* bits below it are all zero and its complement otherwise
RawLossBit(w) ==
    IF w.neg /\ ~(BIsZero(w.lo) /\ w.hi \subseteq (sign \cup loss))
    THEN w.hi \cap loss = {}
    ELSE w.hi \cap loss # {}

WeightIsExact(w) == ~RawLossBit(w)

-----------------------------------------------------------------------------
(* The state machine.  Every operation of the library is a pure function   *)
(* of its arguments, so a behaviour is one call: op names the operation    *)
(* called, lhs, rhs and prec hold its arguments, res (and res2, the        *)
(* remainder of QuoRem or the second word of Pack) what it returned, and   *)
(* ok is FALSE when the call panicked.                                     *)

\* the small mantissas are 1..MaxSmall
MaxSmall == 5

\* the precisions and places are -MaxPlaces, -1, 0, 1 and MaxPlaces
MaxPlaces == 20

\* Pack rescales a mantissa by up to MaxShift decimal digits
MaxShift == 3

Magic ==
    {Null, Zero, NearZero, NearPositiveZero, NearNegativeZero,
     PositiveInfinity, NegativeInfinity, NaN}

Signs == {{}, sign}

\* <<mantissa, exponent>> of the exact ordinary operands: small integers,
\* one half, one thousandth and 1000, the extreme mantissa at the extreme
\* exponents, the least ordinary value, 1840 (1840 * 10^16 is just below
\* 2^64) and 10^16
ExactPairs ==
    {<<NatOf(m), 0>> : m \in 1..MaxSmall}
        \cup {<<NatOf(5), -1>>, <<BOne, -3>>, <<NatOf(1000), 0>>,
              <<BOne, decimal_min_e>>, <<MaxInt, decimal_min_e>>,
              <<MaxInt, decimal_max_e>>, <<NatOf(1840), 0>>,
              <<BPow10(-decimal_min_e), 0>>}

Exact == {vmeAsDecimal(s, p[1], p[2]) : s \in Signs, p \in ExactPairs}

Lossy == {vmeAsDecimal(s \cup loss, NatOf(m), 0) : s \in Signs, m \in {1, 3}}

Operands == Magic \cup Exact \cup Lossy

Places == {-MaxPlaces, -1, 0, 1, MaxPlaces}

\* the magnitudes of the int64 values given to New and NewFromInt
IntMags ==
    {NatOf(m) : m \in 1..MaxSmall}
        \cup {NatOf(10), NatOf(1000), BSub(MaxInt, BOne), MaxInt,
              BAdd(MaxInt, BOne)}

\* the tuples given to vmeAsDecimal: a mantissa below 2^64 and an exponent
PackMants ==
    {BZero} \cup {NatOf(m) : m \in 1..MaxSmall}
        \cup {NatOf(10), NatOf(120), BSub(MaxInt, BOne), MaxInt}

PackExps == {decimal_min_e, -1, 0, 1, decimal_max_e}

Init ==
    /\ op = "init"
    /\ lhs = Null
    /\ rhs = Null
    /\ prec = 0
    /\ res = Null
    /\ res2 = Null
    /\ ok = TRUE

\* Each action is a call: the operator named after the method takes the
\* arguments of the call and c, what the call returned ([ok, d], or
\* [ok, q, r] for QuoRem), and records them.

AddCall(x, y, c) ==
    /\ op = "init"
    /\ op' = "Add"
    /\ lhs' = x
    /\ rhs' = y
    /\ prec' = 0
    /\ res' = c.d
    /\ res2' = Null
    /\ ok' = c.ok

DoAdd ==
    \E x \in Operands, y \in Operands :
        AddCall(x, y, Add(x, y))

SubCall(x, y, c) ==
    /\ op = "init"
    /\ op' = "Sub"
    /\ lhs' = x
    /\ rhs' = y
    /\ prec' = 0
    /\ res' = c.d
    /\ res2' = Null
    /\ ok' = c.ok

DoSub ==
    \E x \in Operands, y \in Operands :
        SubCall(x, y, Sub(x, y))

MulCall(x, y, c) ==
    /\ op = "init"
    /\ op' = "Mul"
    /\ lhs' = x
    /\ rhs' = y
    /\ prec' = 0
    /\ res' = c.d
    /\ res2' = Null
    /\ ok' = c.ok

DoMul ==
    \E x \in Operands, y \in Operands :
        MulCall(x, y, Mul(x, y))

DivCall(x, y, c) ==
    /\ op = "init"
    /\ op' = "Div"
    /\ lhs' = x
    /\ rhs' = y
    /\ prec' = 0
    /\ res' = c.d
    /\ res2' = Null
    /\ ok' = c.ok

DoDiv ==
    \E x \in Operands, y \in Operands :
        DivCall(x, y, Div(x, y))

ModCall(x, y, c) ==
    /\ op = "init"
    /\ op' = "Mod"
    /\ lhs' = x
    /\ rhs' = y
    /\ prec' = 0
    /\ res' = c.d
    /\ res2' = Null
    /\ ok' = c.ok

DoMod ==
    \E x \in Operands, y \in Operands :
        ModCall(x, y, Mod(x, y))

QuoRemCall(x, y, p, c) ==
    /\ op = "init"
    /\ op' = "QuoRem"
    /\ lhs' = x
    /\ rhs' = y
    /\ prec' = p
    /\ res' = c.q
    /\ res2' = c.r
    /\ ok' = c.ok

DoQuoRem ==
    \E x \in Operands, y \in Operands, p \in Places :
        QuoRemCall(x, y, p, QuoRem(x, y, p))

RoundCall(x, p, c) ==
    /\ op = "init"
    /\ op' = "Round"
    /\ lhs' = x
    /\ rhs' = Null
    /\ prec' = p
    /\ res' = c.d
    /\ res2' = Null
    /\ ok' = c.ok

DoRound ==
    \E x \in Operands, p \in Places :
        RoundCall(x, p, Round(x, p))

RoundCeilCall(x, p, c) ==
    /\ op = "init"
    /\ op' = "RoundCeil"
    /\ lhs' = x
    /\ rhs' = Null
    /\ prec' = p
    /\ res' = c.d
    /\ res2' = Null
    /\ ok' = c.ok

DoRoundCeil ==
    \E x \in Operands, p \in Places :
        RoundCeilCall(x, p, RoundCeil(x, p))

RoundFloorCall(x, p, c) ==
    /\ op = "init"
    /\ op' = "RoundFloor"
    /\ lhs' = x
    /\ rhs' = Null
    /\ prec' = p
    /\ res' = c.d
    /\ res2' = Null
    /\ ok' = c.ok

DoRoundFloor ==
    \E x \in Operands, p \in Places :
        RoundFloorCall(x, p, RoundFloor(x, p))

RoundBankCall(x, p, c) ==
    /\ op = "init"
    /\ op' = "RoundBank"
    /\ lhs' = x
    /\ rhs' = Null
    /\ prec' = p
    /\ res' = c.d
    /\ res2' = Null
    /\ ok' = c.ok

DoRoundBank ==
    \E x \in Operands, p \in Places :
        RoundBankCall(x, p, RoundBank(x, p))

\* New(value, exp): lhs holds the int64 value as its sign and magnitude
NewCall(neg, n, e, c) ==
    /\ op = "init"
    /\ op' = "New"
    /\ lhs' = [neg |-> neg, n |-> n]
    /\ rhs' = Null
    /\ prec' = e
    /\ res' = c.d
    /\ res2' = Null
    /\ ok' = c.ok

DoNew ==
    \E neg \in BOOLEAN, n \in IntMags, e \in {-1, 0, 1} :
        NewCall(neg, n, e, Returns(New(neg, n, e)))

NewFromIntCall(neg, n, c) ==
    /\ op = "init"
    /\ op' = "NewFromInt"
    /\ lhs' = [neg |-> neg, n |-> n]
    /\ rhs' = Null
    /\ prec' = 0
    /\ res' = c.d
    /\ res2' = Null
    /\ ok' = c.ok

DoNewFromInt ==
    \E neg \in BOOLEAN, n \in IntMags :
        NewFromIntCall(neg, n, Returns(NewFromInt(neg, n)))

\* vmeAsDecimal of the tuple t and of the tuple u of the same value, its
\* mantissa multiplied by 10^k and its exponent lowered by k: lhs and rhs
\* hold the tuples, res and res2 the two words
Rescaled(t, k) == [v |-> t.v, m |-> BMul(t.m, tenPow[k]), e |-> t.e - k]

PackCall(t, u, k, c) ==
    /\ op = "init"
    /\ op' = "Pack"
    /\ lhs' = t
    /\ rhs' = u
    /\ prec' = k
    /\ res' = c.q
    /\ res2' = c.r
    /\ ok' = c.ok

PackTuples ==
    {[v |-> v, m |-> m, e |-> e] :
        v \in SUBSET (sign \cup loss), m \in PackMants, e \in PackExps}

\* <<t, k>> with the rescaled mantissa still a uint64
PackPairs ==
    {p \in PackTuples \X (0..MaxShift) : BLt(Rescaled(p[1], p[2]).m, Two64)}

DoPack ==
    \E p \in PackPairs :
        PackCall(p[1], Rescaled(p[1], p[2]), p[2],
                 [ok |-> TRUE, q |-> vmeAsDecimal(p[1].v, p[1].m, p[1].e),
                  r |-> vmeAsDecimal(p[1].v, Rescaled(p[1], p[2]).m,
                                     p[1].e - p[2])])

\* d.MarshalBinary(): lhs holds d, res the bytes and res2 the error
MarshalBinaryCall(d, c) ==
    /\ op = "init"
    /\ op' = "MarshalBinary"
    /\ lhs' = d
    /\ rhs' = Null
    /\ prec' = 0
    /\ res' = c.data
    /\ res2' = c.err
    /\ ok' = TRUE

\* the words encoded: the operands, 100, and mantissas whose varint takes
\* two bytes and nine bytes
BinaryValues ==
    Operands
    \cup {IntWord(s, n) : s \in BOOLEAN, n \in {NatOf(100), NatOf(128), Two56}}
    \cup {IntNeg(NearZero)}

DoMarshalBinary == \E d \in BinaryValues : MarshalBinaryCall(d, MarshalBinary(d))

\* byte strings that no word encodes to: empty, a varint that is missing,
\* cut short or too long, bytes after the end, a varint of more than 57 bits
Malformed ==
    {<<>>, <<1>>, <<1, 128>>, <<193, 255, 255>>,
     <<129, 128, 128, 128, 128, 128, 128, 128, 128, 128, 128, 0>>,
     <<1, 255, 255, 255, 255, 255, 255, 255, 255, 255, 2>>,
     <<1, 255, 255, 255, 255, 255, 255, 255, 255, 255, 1>>,
     <<0, 7>>, <<1, 100, 9>>, <<1, 0>>, <<1, 128, 0>>, <<128, 128>>}

Encodings == {MarshalBinary(d).data : d \in BinaryValues} \cup Malformed

\* the receiver before the call
Receivers == {Null, IntWord(FALSE, NatOf(3))}

\* d.UnmarshalBinary(data): lhs holds the receiver before the call, rhs the
\* bytes, res the receiver afterwards and res2 the error
UnmarshalBinaryCall(d, data, c) ==
    /\ op = "init"
    /\ op' = "UnmarshalBinary"
    /\ lhs' = d
    /\ rhs' = data
    /\ prec' = 0
    /\ res' = c.d
    /\ res2' = c.err
    /\ ok' = TRUE

DoUnmarshalBinary ==
    \E d \in Receivers, data \in Encodings :
        UnmarshalBinaryCall(d, data, UnmarshalBinary(d, data))
\* d.String(): lhs holds d and res the text
StringCall(d, c) ==
    /\ op = "init"
    /\ op' = "String"
    /\ lhs' = d
    /\ rhs' = Null
    /\ prec' = 0
    /\ res' = c
    /\ res2' = Null
    /\ ok' = TRUE

\* the words written as text: the operands but Null, and a short and a full
\* mantissa at every exponent
TextValues ==
    (Operands \ {Null})
    \cup {vmeAsDecimal(v, m, e) :
             v \in SUBSET (sign \cup loss), m \in {NatOf(7), MaxInt},
             e \in decimal_min_e..decimal_max_e}

DoString == \E d \in TextValues : StringCall(d, String(d))

\* texts that no word is written as: the literals the tests expect an error
\* for, exponent markers, quotes, spaces, magic words and long numbers
OtherTexts ==
    {<<"0", ".", "a">>, <<".", "1", "2", "3", "e", "-", "-", "1", "9">>,
     <<"a", "z", "e", "r", "t", "y">>, <<"-", "m", "C", "F">>,
     <<"-", "+", "2", "3">>, <<"2", "3", "-">>, <<"4", "4", "+">>,
     <<"-", "~">>, <<"-", "+">>, <<"+", "-">>, <<"~", "+">>, <<"~">>,
     <<"1", "2", "~">>, <<"1", "2", ".", "3", ".", "4">>,
     <<"1", "e">>, <<"E">>, <<"-", "1", "e", " ">>, <<"\"", "1", "e", "\"">>,
     <<"1", "e", "+">>, <<"1", "e", "-", "x">>, <<"1", "e", "x">>,
     <<"1", "e", "5">>, <<"1", "E", "-", "3">>, <<"1", "e", "+", "2", "k">>,
     <<>>, <<" ">>, <<"-">>, <<"+">>, <<".">>, <<"'", "5", "'">>,
     <<" ", "7", " ">>, <<"~", "~", "1">>, <<"~", "-", "~", "1">>,
     <<"+", "~", "-", "1">>, <<"i", "n", "f">>, <<"-", "I", "N", "F">>,
     <<"n", "a", "n">>, <<"n", "u", "l", "l">>, <<"n", "i", "l">>,
     <<"y", "e", "s">>, <<"o", "n">>, <<"n", "o">>, <<"~", "o", "f", "f">>,
     <<"1", "n", "i", "l">>, <<"0", "o", "n">>,
     <<"1", "8", "4", "4", "6", "7", "4", "4", "0", "7", "3", "7", "0", "9",
       "5", "5", "1", "6", "1", "6">>,
     <<"9", "9", "9", "9", "9", "9", "9", "9", "9", "9", "9", "9", "9", "9",
       "9", "9", "9", "9", "9", "9", ".", "5">>}

Texts == {String(d) : d \in TextValues} \cup OtherTexts

\* NewFromString(s): lhs holds the text s, res the word, res2 the error,
\* and ok is FALSE when the call panicked
NewFromStringCall(s, c) ==
    /\ op = "init"
    /\ op' = "NewFromString"
    /\ lhs' = s
    /\ rhs' = Null
    /\ prec' = 0
    /\ res' = c.d
    /\ res2' = c.err
    /\ ok' = c.ok

DoNewFromString == \E s \in Texts : NewFromStringCall(s, NewFromString(s))
EqualCall(x, y, c) ==
    /\ op = "init"
    /\ op' = "Equal"
    /\ lhs' = x
    /\ rhs' = y
    /\ prec' = 0
    /\ res' = c.r
    /\ res2' = Null
    /\ ok' = c.ok

DoEqual ==
    \E x \in Operands, y \in Operands :
        EqualCall(x, y, Equal(x, y))

CompareCall(x, y, c) ==
    /\ op = "init"
    /\ op' = "Compare"
    /\ lhs' = x
    /\ rhs' = y
    /\ prec' = 0
    /\ res' = c.r
    /\ res2' = Null
    /\ ok' = c.ok

DoCompare ==
    \E x \in Operands, y \in Operands :
        CompareCall(x, y, Compare(x, y))

GreatherThanCall(x, y, c) ==
    /\ op = "init"
    /\ op' = "GreatherThan"
    /\ lhs' = x
    /\ rhs' = y
    /\ prec' = 0
    /\ res' = c.r
    /\ res2' = Null
    /\ ok' = c.ok

DoGreatherThan ==
    \E x \in Operands, y \in Operands :
        GreatherThanCall(x, y, GreatherThan(x, y))

LessThanCall(x, y, c) ==
    /\ op = "init"
    /\ op' = "LessThan"
    /\ lhs' = x
    /\ rhs' = y
    /\ prec' = 0
    /\ res' = c.r
    /\ res2' = Null
    /\ ok' = c.ok

DoLessThan ==
    \E x \in Operands, y \in Operands :
        LessThanCall(x, y, LessThan(x, y))

NegCall(d, c) ==
    /\ op = "init"
    /\ op' = "Neg"
    /\ lhs' = d
    /\ rhs' = Null
    /\ prec' = 0
    /\ res' = c
    /\ res2' = Null
    /\ ok' = TRUE

DoNeg ==
    \E d \in Operands :
        NegCall(d, Neg(d))
IntPartErrCall(d, c) ==
    /\ op = "init"
    /\ op' = "IntPartErr"
    /\ lhs' = d
    /\ rhs' = Null
    /\ prec' = 0
    /\ res' = c.i
    /\ res2' = c.err
    /\ ok' = TRUE

\* the words converted: the operands and the words written as text
IntPartValues == Operands \cup TextValues

DoIntPartErr == \E d \in IntPartValues : IntPartErrCall(d, IntPartErr(d))
\* the units of the weights of the model: kg, Gt, g and lb
UnitsUsed == {0, 4, 5, 12}

\* the tuples of the weights: 1 and the greatest value with every sign and
\* loss, zero, and the magic tuples ~0, +~0, -~0, +Inf, -Inf and NaN
WeightTuples ==
    {<<v, m, e>> : v \in SUBSET (sign \cup loss), m \in {BOne}, e \in {0}}
        \cup {<<v, WeightMaxInt, weightMaxE>> : v \in SUBSET (sign \cup loss)}
        \cup {<<sign, BZero, 0>>, <<sign \cup loss, BZero, 0>>,
              <<loss, BZero, weightMinE>>, <<sign \cup loss, BZero, weightMinE>>,
              <<loss, BZero, weightMaxE>>, <<sign \cup loss, BZero, weightMaxE>>,
              <<loss, BZero, 1>>}

\* the weights NewWeight builds: the tuple with the bits of the unit
Weights ==
    {Null} \cup {vmeAsWeight(p[1] \cup UnitBits(t), p[2], p[3]) :
                    p \in WeightTuples, t \in UnitsUsed}

WeightAddCall(x, y, c) ==
    /\ op = "init"
    /\ op' = "WeightAdd"
    /\ lhs' = x
    /\ rhs' = y
    /\ prec' = 0
    /\ res' = c.d
    /\ res2' = Null
    /\ ok' = c.ok

DoWeightAdd ==
    \E x \in Weights, y \in Weights :
        WeightAddCall(x, y, WeightAdd(x, y))

WeightSubCall(x, y, c) ==
    /\ op = "init"
    /\ op' = "WeightSub"
    /\ lhs' = x
    /\ rhs' = y
    /\ prec' = 0
    /\ res' = c.d
    /\ res2' = Null
    /\ ok' = c.ok

DoWeightSub ==
    \E x \in Weights, y \in Weights :
        WeightSubCall(x, y, WeightSub(x, y))

WeightMulCall(x, y, c) ==
    /\ op = "init"
    /\ op' = "WeightMul"
    /\ lhs' = x
    /\ rhs' = y
    /\ prec' = 0
    /\ res' = c.d
    /\ res2' = Null
    /\ ok' = c.ok

DoWeightMul ==
    \E x \in Weights, y \in Operands :
        WeightMulCall(x, y, WeightMul(x, y))

WeightIsExactCall(w, c) ==
    /\ op = "init"
    /\ op' = "WeightIsExact"
    /\ lhs' = w
    /\ rhs' = Null
    /\ prec' = 0
    /\ res' = c
    /\ res2' = Null
    /\ ok' = TRUE

DoWeightIsExact == \E w \in Weights : WeightIsExactCall(w, WeightIsExact(w))
\* every word of mantissa 0: any bits 57..62 with either sign, and Zero
ZeroMantissaWords ==
    {Word(s, hi, BZero) : s \in BOOLEAN, hi \in (SUBSET (57..62)) \ {{}}}
        \cup {Null, Zero}

IsNaNCall(d, c) ==
    /\ op = "init"
    /\ op' = "IsNaN"
    /\ lhs' = d
    /\ rhs' = Null
    /\ prec' = 0
    /\ res' = c
    /\ res2' = Null
    /\ ok' = TRUE

DoIsNaN == \E d \in ZeroMantissaWords \cup TextValues : IsNaNCall(d, IsNaN(d))
\* vmeNormalize(t.v, t.m, t.e, maxM, minE, maxE) for a tuple t of nonzero
\* mantissa under the Decimal or the Weight layout: lhs holds the tuple, rhs
\* the layout and res the normalized tuple
Layout(maxM, minE, maxE) == [maxM |-> maxM, minE |-> minE, maxE |-> maxE]

Layouts ==
    {Layout(MaxInt, decimal_min_e, decimal_max_e),
     Layout(WeightMaxInt, weightMinE, weightMaxE)}

NormMants ==
    {NatOf(m) : m \in 1..MaxSmall}
        \cup {NatOf(10), NatOf(95), NatOf(120), WeightMaxInt, BSub(MaxInt, BOne), MaxInt,
              BAdd(MaxInt, BOne), BSub(Two64, BOne)}

NormExps ==
    {-2 * LenTenPow, decimal_min_e - MaxShift, decimal_min_e - 1, decimal_min_e,
     -1, 0, 1, decimal_max_e, decimal_max_e + 1, decimal_max_e + MaxShift,
     2 * LenTenPow}

NormTuples ==
    {[v |-> v, m |-> m, e |-> e] :
        v \in SUBSET (sign \cup loss), m \in NormMants, e \in NormExps}

NormalizeCall(t, l, c) ==
    /\ op = "init"
    /\ op' = "Normalize"
    /\ lhs' = t
    /\ rhs' = l
    /\ prec' = 0
    /\ res' = c
    /\ res2' = Null
    /\ ok' = c.ok

DoNormalize ==
    \E t \in NormTuples, l \in Layouts :
        NormalizeCall(t, l, vmeNormalize(t.v, t.m, t.e, l.maxM, l.minE, l.maxE))
\* vmeFromBytes(s) for a text s of digits with at most one point, around
\* the length at which the mantissa overflows: lhs holds the text, res the
\* tuple and res2 the error
DigitHeads ==
    {<<"1", "8", "4", "4", "6", "7", "4", "4", "0", "7", "3", "7", "0", "9", "5", "5", "1", "6", "1">>,
     <<"9", "9", "9", "9", "9", "9", "9", "9", "9", "9", "9", "9", "9", "9", "9", "9", "9", "9", "9">>,
     <<"0", ".", "1", "8", "4", "4", "6", "7", "4", "4", "0", "7", "3", "7", "0", "9", "5", "5", "1", "6", "1">>,
     <<"1">>, <<"0", ".", "0">>}

DigitTails == {<<>>, <<"0">>, <<"7">>, <<".", "0">>, <<".", "7">>}

DigitTexts ==
    {h \o <<DigitChars[n]>> \o t : h \in DigitHeads, n \in 1..10, t \in DigitTails}

ParseCall(s, c) ==
    /\ op = "init"
    /\ op' = "Parse"
    /\ lhs' = s
    /\ rhs' = Null
    /\ prec' = 0
    /\ res' = c
    /\ res2' = c.err
    /\ ok' = c.ok

DoParse == \E s \in DigitTexts : ParseCall(s, vmeFromBytes(s))
\* The first unit lookups of several threads over the shared unit table.
\* lhs holds the memoized hash field h of every unit of the table and rhs
\* the threads: the position pc of each in vmeUnitOrMagicFromBytes, its
\* text b and mantissa m, the hash h of b, the index i of the unit at hand,
\* its local _h (uh) and what it returned (out).

\* the threads are 1..MaxThreads
MaxThreads == 2

Threads == 1..MaxThreads

\* the units of the shared table that the model keeps: kg, g, a reserved
\* entry and lb
LookupUnits ==
    << [u |-> <<"k", "g">>, v |-> UnitBits(0)],
       [u |-> <<"g">>, v |-> UnitBits(5)],
       [u |-> <<>>, v |-> {}],
       [u |-> <<"l", "b">>, v |-> UnitBits(12)] >>

\* <<b, m>>: the text and the mantissa a lookup is given
LookupInputs ==
    {<<<<"k", "g">>, BOne>>, <<<<"L", "b">>, BOne>>, <<<<"o", "n">>, BZero>>,
     <<<<"x">>, BOne>>, <<<<" ">>, BOne>>}

NotReturned == Parsed({}, BZero, 0, "pending")

IdleThread ==
    [pc |-> "idle", b |-> <<>>, m |-> BZero, h |-> BZero, i |-> 0,
     uh |-> BZero, out |-> NotReturned]

Returned(th, out) == [th EXCEPT !.pc = "done", !.out = out]

\* the loop head at index i: the units of empty name are skipped; past the
\* last unit the text is read as a magic word
NextUnit(th, i) ==
    LET S == {j \in i..Len(LookupUnits) : LookupUnits[j].u # <<>>}
    IN  IF S = {} THEN Returned(th, vmeUnitOrMagicFromBytes(th.b, {}, th.m, 0))
        ELSE [th EXCEPT !.pc = "load", !.i = MinIn(S)]

\* h := unitHash(string(b)); a hash of 0 returns at once
BeginLookup(th, b, m) ==
    IF BIsZero(unitHash(b))
    THEN Returned([th EXCEPT !.b = b, !.m = m], Parsed({}, m, 0, NoError))
    ELSE NextUnit([th EXCEPT !.b = b, !.m = m, !.h = unitHash(b)], 1)

\* _h := atomic.LoadUint64(&u.h); if _h == 0 { _h = unitHash(u.u)
LoadHash(th, f) ==
    IF BIsZero(f)
    THEN [th EXCEPT !.pc = "store", !.uh = unitHash(LookupUnits[th.i].u)]
    ELSE [th EXCEPT !.pc = "compare", !.uh = f]

\* a faulty StoredHash: the hash of the text is stored, not that of the unit
StoredHashOfText(th) == th.h

\* the value of atomic.StoreUint64(&u.h, _h)
StoredHash(th) == th.uh

\* if h == _h { return v | u.v, m, e, nil }
CompareHash(th) ==
    IF th.h = th.uh
    THEN Returned(th, Parsed(LookupUnits[th.i].v, th.m, 0, NoError))
    ELSE NextUnit(th, th.i + 1)

SpawnCall(table, ths) ==
    /\ op = "init"
    /\ op' = "Lookup"
    /\ lhs' = table
    /\ rhs' = ths
    /\ UNCHANGED <<prec, res, res2, ok>>

\* the program starts the threads; no hash is memoized yet
SpawnLookups ==
    SpawnCall([i \in 1..Len(LookupUnits) |-> BZero], [t \in Threads |-> IdleThread])

LookupStep(t, from, table, th) ==
    /\ op = "Lookup"
    /\ rhs[t].pc = from
    /\ lhs' = table
    /\ rhs' = [rhs EXCEPT ![t] = th]
    /\ UNCHANGED <<op, prec, res, res2, ok>>

DoBeginLookup ==
    \E t \in Threads, p \in LookupInputs :
        LookupStep(t, "idle", lhs, BeginLookup(rhs[t], p[1], p[2]))

DoLoadHash ==
    \E t \in Threads : LookupStep(t, "load", lhs, LoadHash(rhs[t], lhs[rhs[t].i]))

DoStoreHash ==
    \E t \in Threads :
        LookupStep(t, "store", [lhs EXCEPT ![rhs[t].i] = StoredHash(rhs[t])],
                   [rhs[t] EXCEPT !.pc = "compare"])

DoCompareHash ==
    \E t \in Threads : LookupStep(t, "compare", lhs, CompareHash(rhs[t]))

Next ==
    \/ DoAdd
    \/ DoSub
    \/ DoMul
    \/ DoDiv
    \/ DoMod
    \/ DoQuoRem
    \/ DoRound
    \/ DoRoundCeil
    \/ DoRoundFloor
    \/ DoRoundBank
    \/ DoNew
    \/ DoNewFromInt
    \/ DoPack
    \/ DoMarshalBinary
    \/ DoUnmarshalBinary
    \/ DoString
    \/ DoNewFromString
    \/ DoEqual
    \/ DoCompare
    \/ DoGreatherThan
    \/ DoLessThan
    \/ DoNeg
    \/ DoIntPartErr
    \/ DoWeightAdd
    \/ DoWeightSub
    \/ DoWeightMul
    \/ DoWeightIsExact
    \/ DoIsNaN
    \/ DoNormalize
    \/ DoParse
    \/ SpawnLookups
    \/ DoBeginLookup
    \/ DoLoadHash
    \/ DoStoreHash
    \/ DoCompareHash

Spec == Init /\ [][Next]_vars

\* the arithmetic operators and the roundings
NextArithRound ==
    \/ DoAdd
    \/ DoSub
    \/ DoMul
    \/ DoDiv
    \/ DoMod
    \/ DoQuoRem
    \/ DoRound
    \/ DoRoundCeil
    \/ DoRoundFloor
    \/ DoRoundBank

SpecArithRound == Init /\ [][NextArithRound]_vars

\* the four arithmetic operators alone
NextArith == DoAdd \/ DoSub \/ DoMul \/ DoDiv

SpecArith == Init /\ [][NextArith]_vars

\* division with remainder alone
NextQuoRem == DoQuoRem \/ DoMod

SpecQuoRem == Init /\ [][NextQuoRem]_vars

\* the constructors from integers and the operators closed over integers
NextInt == DoNew \/ DoNewFromInt \/ DoAdd \/ DoSub \/ DoMul

SpecInt == Init /\ [][NextInt]_vars

\* packing alone
NextPack == DoPack

SpecPack == Init /\ [][NextPack]_vars

\* the binary encoding alone
NextBinary == DoMarshalBinary \/ DoUnmarshalBinary

SpecBinary == Init /\ [][NextBinary]_vars

\* the text representation alone
NextText == DoString \/ DoNewFromString

SpecText == Init /\ [][NextText]_vars

NextCompare ==
    DoEqual \/ DoCompare \/ DoGreatherThan \/ DoLessThan \/ DoNeg \/ DoSub

SpecCompare == Init /\ [][NextCompare]_vars

NextConvert == DoIntPartErr

SpecConvert == Init /\ [][NextConvert]_vars

NextWeight == DoWeightAdd \/ DoWeightSub \/ DoWeightMul \/ DoWeightIsExact

SpecWeight == Init /\ [][NextWeight]_vars

NextClassify == DoIsNaN

SpecClassify == Init /\ [][NextClassify]_vars

\* normalization alone
NextNormalize == DoNormalize

SpecNormalize == Init /\ [][NextNormalize]_vars

\* the parser alone
NextParse == DoParse

SpecParse == Init /\ [][NextParse]_vars

\* packing and normalization
NextCodec == DoPack \/ DoNormalize

SpecCodec == Init /\ [][NextCodec]_vars

\* the concurrent unit lookups
NextLookup ==
    SpawnLookups \/ DoBeginLookup \/ DoLoadHash \/ DoStoreHash \/ DoCompareHash

SpecLookup == Init /\ [][NextLookup]_vars

-----------------------------------------------------------------------------
(* Exact values.  An ordinary or exactly zero Decimal d has the value      *)
(* sign * mantissa * 10^exponent; the exponent is at least decimal_min_e,  *)
(* so value * 10^16 is an integer, kept as [neg, n].                       *)

Ordinary(d) == ~BIsZero(d.lo)

HasLoss(d) == ~IsExact(d)

Infinite(d) == d = PositiveInfinity \/ d = NegativeInfinity

SignedNearZero(d) == d = NearPositiveZero \/ d = NearNegativeZero

UnsignedNearZero(d) == d = NearZero

AnyNearZero(d) == UnsignedNearZero(d) \/ SignedNearZero(d)

\* d has a numeric value: it is ordinary or one of the two exact zeros
HasValue(d) == Ordinary(d) \/ IsExactlyZero(d)

SInt(neg, n) == [neg |-> neg /\ ~BIsZero(n), n |-> n]

SAdd(a, b) ==
    IF a.neg = b.neg THEN SInt(a.neg, BAdd(a.n, b.n))
    ELSE IF BLe(b.n, a.n) THEN SInt(a.neg, BSub(a.n, b.n))
    ELSE SInt(b.neg, BSub(b.n, a.n))

SNeg(a) == SInt(~a.neg, a.n)

SMul(a, b) == SInt(a.neg # b.neg, BMul(a.n, b.n))

\* n * 10^k
Times10(n, k) == BMul(n, BPow10(k))

\* |d| * 10^16
ScaledAbs(d) == Times10(d.lo, EField(d.hi) - decimal_min_e)

\* d * 10^16
Fixed(d) == SInt(d.neg, ScaledAbs(d))

\* d * 10^32
Fixed2(d) == SInt(d.neg, Times10(ScaledAbs(d), -decimal_min_e))

\* the operation called is one of the four arithmetic operators
Arith == op \in {"Add", "Sub", "Mul", "Div"}

\* the operation called is an arithmetic or a rounding operation
ArithOrRounding ==
    op \in {"Add", "Sub", "Mul", "Div", "QuoRem", "Mod",
            "Round", "RoundCeil", "RoundFloor", "RoundBank"}

\* the infinity and the signed near-zero of the product of the signs of the
\* operands
ProductInfinity == IF lhs.neg # rhs.neg THEN NegativeInfinity ELSE PositiveInfinity

ProductNearZero == IF lhs.neg # rhs.neg THEN NearNegativeZero ELSE NearPositiveZero

\* P holds of one operand and Q of the other
Either(P(_), Q(_)) == (P(lhs) /\ Q(rhs)) \/ (P(rhs) /\ Q(lhs))

-----------------------------------------------------------------------------
(* C1.  Arithmetic is total.                                               *)

\* C1: no call of Add, Sub, Mul, Div, QuoRem, Mod, Round, RoundCeil,
\* RoundFloor or RoundBank panics, whatever the operands and the precision
\* or places: every table lookup and every 128-by-64-bit division is in
\* range.
ArithmeticIsTotal == ArithOrRounding => ok

\* 1.QuoRem(1, -MaxPlaces) panics
QuoRemPanics ==
    /\ op = "QuoRem"
    /\ lhs = IntWord(FALSE, BOne)
    /\ rhs = IntWord(FALSE, BOne)
    /\ prec = -MaxPlaces
    /\ ~ok

-----------------------------------------------------------------------------
(* C2.  The loss flag is sound.                                            *)

\* the exact lhs + rhs, lhs - rhs or lhs * rhs, times 10^32
TrueValue2 ==
    IF op = "Add" THEN SAdd(Fixed2(lhs), Fixed2(rhs))
    ELSE IF op = "Sub" THEN SAdd(Fixed2(lhs), SNeg(Fixed2(rhs)))
    ELSE SMul(Fixed(lhs), Fixed(rhs))

\* the result of the arithmetic operator called is the exact one
ResultIsExact ==
    /\ HasValue(res)
    /\ IF op = "Div" THEN Fixed2(lhs) = SMul(Fixed(rhs), Fixed(res))
       ELSE Fixed2(res) = TrueValue2

\* C2: when Add, Sub, Mul or Div of two ordinary operands with the loss
\* flag clear returns a result with the loss flag clear, the value of the
\* result is the exact sum, difference, product or quotient.
LossFlagSound ==
    (Arith /\ ok /\ Ordinary(lhs) /\ Ordinary(rhs)
        /\ IsExact(lhs) /\ IsExact(rhs) /\ IsExact(res))
    => ResultIsExact

\* New(MaxInt, -16).Add(1840) returns a value with the loss flag clear
WrappedSum ==
    /\ op = "Add"
    /\ lhs = vmeAsDecimal({}, MaxInt, decimal_min_e)
    /\ rhs = IntWord(FALSE, NatOf(1840))
    /\ ok
    /\ IsExact(res)
    /\ ~ResultIsExact

-----------------------------------------------------------------------------
(* C3.  Loss is monotonic.                                                 *)

\* C3: when an operand of Add, Sub, Mul or Div has its loss flag set, the
\* result has its loss flag set.
LossMonotonic == (Arith /\ ok /\ (HasLoss(lhs) \/ HasLoss(rhs))) => HasLoss(res)

\* Zero.Mul(PositiveInfinity) is the exact Zero
ZeroTimesInfinityExact ==
    /\ op = "Mul"
    /\ lhs = Zero
    /\ rhs = PositiveInfinity
    /\ ok
    /\ res = Zero

-----------------------------------------------------------------------------
(* C4.  No operation returns Null.                                         *)

\* C4: Add, Sub, Mul, Div, QuoRem, Mod and the four roundings never return
\* Null, whatever the operands.
NeverNull ==
    (ArithOrRounding /\ ok) => (res # Null /\ (op = "QuoRem" => res2 # Null))

\* 4.Mod(2) returns Null
ModReturnsNull ==
    /\ op = "Mod"
    /\ lhs = IntWord(FALSE, NatOf(4))
    /\ rhs = IntWord(FALSE, NatOf(2))
    /\ ok
    /\ res = Null

-----------------------------------------------------------------------------
(* C5.  The truth table of Add for NaN and the infinities.                 *)

\* what the table says of lhs + rhs, or Null when it says nothing
AddTable ==
    IF lhs = NaN \/ rhs = NaN THEN NaN
    ELSE IF Infinite(lhs) /\ Infinite(rhs) THEN (IF lhs = rhs THEN lhs ELSE NaN)
    ELSE IF Infinite(lhs) THEN lhs
    ELSE IF Infinite(rhs) THEN rhs
    ELSE Null

\* C5: in either operand order, Add with a NaN is NaN, the sum of two equal
\* infinities is that infinity, the sum of opposite infinities is NaN, and
\* an infinity plus any other value that is not NaN is that infinity.
AddTruthTable == (op = "Add" /\ AddTable # Null) => (ok /\ res = AddTable)

\* PositiveInfinity.Add(NegativeInfinity) has returned NaN
OppositeInfinitiesAdded ==
    /\ op = "Add"
    /\ lhs = PositiveInfinity
    /\ rhs = NegativeInfinity
    /\ ok
    /\ res = NaN

-----------------------------------------------------------------------------
(* C6.  The truth table of Mul over the magic operands.                    *)

\* what the table says of lhs * rhs, or Null when it says nothing
MulTable ==
    IF lhs = NaN \/ rhs = NaN THEN NaN
    ELSE IF Either(IsExactlyZero, Infinite) THEN NaN
    ELSE IF Either(AnyNearZero, Infinite) THEN NaN
    ELSE IF Either(Infinite, Infinite) \/ Either(Infinite, Ordinary)
    THEN ProductInfinity
    ELSE IF Either(SignedNearZero, Ordinary) THEN ProductNearZero
    ELSE IF Either(UnsignedNearZero, Ordinary) THEN NearZero
    ELSE IF Either(IsExactlyZero, Ordinary) THEN Zero
    ELSE Null

\* C6: in both operand orders, Mul follows its truth table: an exact zero
\* or a near-zero times an infinity is NaN, NaN times anything is NaN, an
\* infinity times an infinity or an ordinary value is the infinity of the
\* product of the signs, a signed near-zero times an ordinary value is the
\* signed near-zero of the product of the signs, NearZero times an ordinary
\* value is NearZero, and an exact zero times an ordinary value is Zero.
MulTruthTable == (op = "Mul" /\ MulTable # Null) => (ok /\ res = MulTable)

\* Zero.Mul(PositiveInfinity) has returned something else than NaN
ZeroTimesInfinityNotNaN ==
    /\ op = "Mul"
    /\ lhs = Zero
    /\ rhs = PositiveInfinity
    /\ ok
    /\ res # NaN

-----------------------------------------------------------------------------
(* C7.  The canonical-integer law.                                         *)

\* the exact result of Add, Sub or Mul is a nonzero integer within MaxInt
TrueValueIsInteger ==
    /\ ~BIsZero(TrueValue2.n)
    /\ BIsZero(BDivMod(TrueValue2.n, BPow10(-2 * decimal_min_e))[2])
    /\ BLe(BDivMod(TrueValue2.n, BPow10(-2 * decimal_min_e))[1], MaxInt)

\* Decimal(r) for the exact result r
TrueInteger ==
    IntWord(TrueValue2.neg, BDivMod(TrueValue2.n, BPow10(-2 * decimal_min_e))[1])

\* C7: New(i, 0) and NewFromInt(i) of a nonzero integer i within MaxInt are
\* the word Decimal(i); and when the exact result of Add, Sub or Mul of
\* exact operands is a nonzero integer r within MaxInt, the Decimal
\* returned is the word Decimal(r), of exponent 0 and loss clear.
CanonicalInteger ==
    /\ ((op = "NewFromInt" \/ (op = "New" /\ prec = 0)) /\ BLe(lhs.n, MaxInt))
       => (ok /\ res = IntWord(lhs.neg, lhs.n))
    /\ (op \in {"Add", "Sub", "Mul"} /\ HasValue(lhs) /\ HasValue(rhs)
          /\ IsExact(lhs) /\ IsExact(rhs) /\ TrueValueIsInteger)
       => (ok /\ res = TrueInteger)

\* New(1, -3).Mul(1000) has returned Decimal(1)
ThousandthTimesThousand ==
    /\ op = "Mul"
    /\ lhs = vmeAsDecimal({}, BOne, -3)
    /\ rhs = IntWord(FALSE, NatOf(1000))
    /\ ok
    /\ TrueValueIsInteger
    /\ res = IntWord(FALSE, BOne)

-----------------------------------------------------------------------------
(* C8.  Unique representation.                                             *)

\* C8: two tuples of the same sign, the same loss flag and the same value
\* m * 10^e are packed by vmeAsDecimal to the same word.
UniqueRepresentation == op = "Pack" => res = res2

\* the tuples (0, 0, 0) and (0, 0, -1) are packed to Null and to Zero
TwoExactZeros ==
    /\ op = "Pack"
    /\ lhs = [v |-> {}, m |-> BZero, e |-> 0]
    /\ rhs = [v |-> {}, m |-> BZero, e |-> -1]
    /\ res = Null
    /\ res2 = Zero

\* the same for the tuples of a mantissa that is not zero
UniqueRepresentationNonZero ==
    (op = "Pack" /\ ~BIsZero(lhs.m)) => res = res2

-----------------------------------------------------------------------------
(* C9.  The contract of QuoRem.                                            *)

\* the quotient res is an integer multiple of 10^(-prec)
QuotientOnGrid ==
    prec <= -decimal_min_e
        => BIsZero(BDivMod(ScaledAbs(res), BPow10(-decimal_min_e - prec))[2])

\* |res2| < |rhs| * 10^(-prec)
RemainderBelow ==
    IF prec >= 0 THEN BLt(Times10(ScaledAbs(res2), prec), ScaledAbs(rhs))
    ELSE BLt(ScaledAbs(res2), Times10(ScaledAbs(rhs), -prec))

\* C9: for ordinary d1 and d2 and any precision p, d1.QuoRem(d2, p) returns
\* q and r with q an integer multiple of 10^(-p), d1 = d2 * q + r exactly,
\* r zero or of the sign of d1, and |r| < |d2| * 10^(-p).
QuoRemContract ==
    (op = "QuoRem" /\ Ordinary(lhs) /\ Ordinary(rhs))
    => /\ ok
       /\ HasValue(res)
       /\ HasValue(res2)
       /\ QuotientOnGrid
       /\ Fixed2(lhs) = SAdd(SMul(Fixed(rhs), Fixed(res)), Fixed2(res2))
       /\ BIsZero(res2.lo) \/ res2.neg = lhs.neg
       /\ RemainderBelow

\* 3.QuoRem(-2, 0) has returned the quotient -1 and the remainder -1
RemainderOfQuotientSign ==
    /\ op = "QuoRem"
    /\ lhs = IntWord(FALSE, NatOf(3))
    /\ rhs = IntWord(TRUE, NatOf(2))
    /\ prec = 0
    /\ ok
    /\ res = IntWord(TRUE, BOne)
    /\ res2 = IntWord(TRUE, BOne)

-----------------------------------------------------------------------------
(* C10.  Division by the zeros and by the infinities.                      *)

\* what the table says of lhs / rhs, or Null when it says nothing
DivTable ==
    IF rhs \in {Null, Zero, NearZero} THEN NaN
    ELSE IF Ordinary(lhs) /\ SignedNearZero(rhs) THEN ProductInfinity
    ELSE IF Ordinary(lhs) /\ Infinite(rhs) THEN ProductNearZero
    ELSE IF lhs \in {Zero, NearZero} /\ SignedNearZero(rhs) THEN NaN
    ELSE Null

\* C10: x.Div(Null), x.Div(Zero) and x.Div(NearZero) are NaN for every x;
\* an ordinary x divided by a signed near-zero is the infinity of the
\* product of the signs, and divided by an infinity the signed near-zero of
\* the product of the signs; Zero or NearZero divided by a signed near-zero
\* is NaN.
DivTruthTable == (op = "Div" /\ DivTable # Null) => (ok /\ res = DivTable)

\* 3.Div(NearNegativeZero) has returned NegativeInfinity
DividedByNearNegativeZero ==
    /\ op = "Div"
    /\ lhs = IntWord(FALSE, NatOf(3))
    /\ rhs = NearNegativeZero
    /\ ok
    /\ res = NegativeInfinity

-----------------------------------------------------------------------------
(* Rounding.  A multiple of 10^(-prec) is, times 10^16, a multiple of      *)
(* RoundUnit; when prec is 16 or more every Decimal is such a multiple.    *)

\* the four roundings alone
NextRound == DoRound \/ DoRoundCeil \/ DoRoundFloor \/ DoRoundBank

SpecRound == Init /\ [][NextRound]_vars

EveryValueOnGrid == prec >= -decimal_min_e

\* <<quotient, remainder>> of n by 10^k: the digits above and below the
\* k-th decimal digit
DivPow10(n, k) ==
    LET j  == k \div 4
        lo == BStrip(SubSeq(n, 1, MinOf(j, Len(n))))
        qr == BDivSmall(SubSeq(n, j + 1, Len(n)), 10 ^ (k % 4))
    IN  <<qr[1], BAdd(BShift(qr[2], j), lo)>>

\* 10^(-prec) * 10^16
RoundUnit == BPow10(-decimal_min_e - prec)

\* |lhs| * 10^16 rounded down to a multiple of RoundUnit, and what is left
RoundedDown ==
    Times10(DivPow10(ScaledAbs(lhs), -decimal_min_e - prec)[1],
            -decimal_min_e - prec)

RoundRest == DivPow10(ScaledAbs(lhs), -decimal_min_e - prec)[2]

\* |lhs| * 10^16 rounded up to the next multiple of RoundUnit
RoundedUp == BAdd(RoundedDown, RoundUnit)

\* lhs lies exactly halfway between two multiples
Halfway == ~EveryValueOnGrid /\ BMulSmall(RoundRest, 2) = RoundUnit

\* res has the value of magnitude n * 10^(-16) and of the sign of lhs
ResultIs(n) ==
    /\ ok
    /\ HasValue(res)
    /\ ScaledAbs(res) = n
    /\ BIsZero(n) \/ res.neg = lhs.neg

\* the magnitude of the multiple nearest to lhs, a tie going away from zero
NearestAwayFromZero ==
    IF EveryValueOnGrid THEN ScaledAbs(lhs)
    ELSE IF BLe(RoundUnit, BMulSmall(RoundRest, 2)) THEN RoundedUp
    ELSE RoundedDown

\* the magnitude of the multiple nearest to lhs, a tie going towards
\* +infinity
NearestHalfUp ==
    IF EveryValueOnGrid THEN ScaledAbs(lhs)
    ELSE IF BLt(RoundUnit, BMulSmall(RoundRest, 2)) \/ (Halfway /\ ~lhs.neg)
    THEN RoundedUp
    ELSE RoundedDown

\* a magnitude times 10^16 that a Decimal can hold
Representable(n) == BLe(n, Times10(MaxInt, decimal_max_e - decimal_min_e))

-----------------------------------------------------------------------------
(* C11.  Round goes to the nearest multiple, ties away from zero.          *)

\* C11: Round(places) of an ordinary d returns the multiple of 10^(-places)
\* nearest to d, and the one farther from zero when d is halfway between
\* two multiples, for positive and negative d alike.
RoundNearestAwayFromZero ==
    (op = "Round" /\ Ordinary(lhs)) => ResultIs(NearestAwayFromZero)

\* New(MaxInt, 15).Round(-MaxPlaces) has returned a value with the loss
\* flag clear that is not a multiple of 10^MaxPlaces
RoundOverflows ==
    /\ op = "Round"
    /\ lhs = vmeAsDecimal({}, MaxInt, decimal_max_e)
    /\ prec = -MaxPlaces
    /\ ok
    /\ IsExact(res)
    /\ ~BIsZero(DivPow10(ScaledAbs(res), -decimal_min_e - prec)[2])

\* Round follows the half-up rule whenever the multiple it has to return
\* is a value a Decimal can hold
RoundHalfUpInRange ==
    (op = "Round" /\ Ordinary(lhs) /\ Representable(NearestHalfUp))
    => ResultIs(NearestHalfUp)

\* New(-5, -1).Round(0), a negative tie, has returned Zero
NegativeTieTowardsZero ==
    /\ op = "Round"
    /\ lhs = vmeAsDecimal(sign, NatOf(5), -1)
    /\ prec = 0
    /\ Halfway
    /\ ok
    /\ res = Zero

-----------------------------------------------------------------------------
(* C12.  Directed rounding.                                                *)

\* the magnitude of the multiple of 10^(-prec) next to lhs on the side away
\* from zero, and on the side of zero
AwayFromZero ==
    IF EveryValueOnGrid THEN ScaledAbs(lhs)
    ELSE IF BIsZero(RoundRest) THEN RoundedDown
    ELSE RoundedUp

TowardsZero == IF EveryValueOnGrid THEN ScaledAbs(lhs) ELSE RoundedDown

\* C12: for every ordinary d and every places, RoundCeil(places) returns the
\* smallest multiple of 10^(-places) that is >= d and RoundFloor(places) the
\* largest one that is <= d, also when |d| is far below 10^(-places).
DirectedRounding ==
    /\ (op = "RoundCeil" /\ Ordinary(lhs))
       => ResultIs(IF lhs.neg THEN TowardsZero ELSE AwayFromZero)
    /\ (op = "RoundFloor" /\ Ordinary(lhs))
       => ResultIs(IF lhs.neg THEN AwayFromZero ELSE TowardsZero)

\* Decimal(1).RoundCeil(-MaxPlaces) has returned Zero, which is below 1
CeilBelowOperand ==
    /\ op = "RoundCeil"
    /\ lhs = IntWord(FALSE, BOne)
    /\ prec = -MaxPlaces
    /\ Representable(AwayFromZero)
    /\ ok
    /\ res = Zero

-----------------------------------------------------------------------------
(* C13.  Rounding of the magic values.                                     *)

Rounding == op \in {"Round", "RoundCeil", "RoundFloor", "RoundBank"}

\* C13: for every places, each of the four roundings returns Zero for Zero,
\* NearZero, NearPositiveZero and NearNegativeZero, returns an infinity
\* unchanged, and returns a NaN for NaN.
RoundingOfMagic ==
    /\ (Rounding /\ (lhs = Zero \/ AnyNearZero(lhs))) => (ok /\ res = Zero)
    /\ (Rounding /\ Infinite(lhs)) => (ok /\ res = lhs)
    /\ (Rounding /\ lhs = NaN) => (ok /\ IsNaN(res))

\* NearNegativeZero.RoundCeil(-1) has returned Zero
NearZeroRoundedToZero ==
    /\ op = "RoundCeil"
    /\ lhs = NearNegativeZero
    /\ prec = -1
    /\ ok
    /\ res = Zero

-----------------------------------------------------------------------------
(* The binary encoding returns every word unchanged.                       *)

\* the bytes decoded are the encoding of the word d
EncodingOf(d) == rhs = MarshalBinary(d).data

\* C14: decoding the bytes MarshalBinary gave for a word yields that very
\* word and no error; the encoding is one byte when the mantissa is zero and
\* two to ten bytes otherwise; Null is encoded as 0x00, Zero as 0x80 and 100
\* as 0x01 0x64.
BinaryRoundTrip ==
    /\ op = "UnmarshalBinary" =>
           \A d \in BinaryValues :
               EncodingOf(d) => res2 = NoError /\ res = d
    /\ op = "MarshalBinary" =>
           /\ res2 = NoError
           /\ BIsZero(lhs.lo) => Len(res) = 1
           /\ ~BIsZero(lhs.lo) => Len(res) >= 2 /\ Len(res) <= 10
           /\ lhs = Null => res = <<0>>
           /\ lhs = Zero => res = <<128>>
           /\ lhs = IntWord(FALSE, NatOf(100)) => res = <<1, 100>>

\* a negative lossy word with a full mantissa came back from its ten bytes
LongNegativeCameBack ==
    /\ op = "UnmarshalBinary"
    /\ Len(rhs) = 10
    /\ EncodingOf(res)
    /\ res.neg
    /\ res # lhs

-----------------------------------------------------------------------------
(* The errors of the binary decoder.                                       *)

\* buf starts with a complete unsigned varint of at most 64 bits: bytes with
\* the high bit set, then one without, ten bytes at most, the tenth 0 or 1
ValidVarint(buf) ==
    \E n \in 1..MinOf(MaxVarintLen64, Len(buf)) :
        /\ \A i \in 1..(n - 1) : buf[i] >= 128
        /\ buf[n] < 128
        /\ n = MaxVarintLen64 => buf[n] <= 1

\* the bytes are empty, or announce a varint that is cut short or malformed
Undecodable == rhs = <<>> \/ (rhs[1] % 2 = 1 /\ ~ValidVarint(Tail(rhs)))

\* C15: UnmarshalBinary returns ErrFormat for an empty input and for a first
\* byte with its low bit set that no complete valid varint follows; when it
\* returns an error the receiver is unchanged, and it returns nil only when
\* the bytes could be decoded and the decoded word was stored.
BinaryDecodeErrors ==
    op = "UnmarshalBinary" =>
        /\ Undecodable => res2 = ErrFormat
        /\ res2 # NoError => res = lhs
        /\ res2 = NoError =>
               /\ ~Undecodable
               /\ rhs[1] % 2 = 0 => MarshalBinary(res).data = <<rhs[1]>>
               /\ rhs[1] % 2 = 1 => res.lo = DivPow2(Uvarint(Tail(rhs)).m)[2]

\* a varint cut short was refused and the receiver kept its value
TruncatedVarintRejected ==
    /\ op = "UnmarshalBinary"
    /\ rhs = <<1, 128>>
    /\ res2 = ErrFormat
    /\ lhs # Null
    /\ res = lhs

-----------------------------------------------------------------------------
(* Text written by String is read back as the same word.                   *)

\* the text parsed is the text of the word d
TextOf(d) == lhs = String(d)

\* C16: NewFromString of the text String gives for a canonical word other
\* than Null (Zero, the near zeros, the infinities, NaN, ordinary words of
\* both signs, exact or lossy, at every exponent) returns no error and that
\* very word.
TextRoundTrip ==
    op = "NewFromString" =>
        \A d \in TextValues : TextOf(d) => ok /\ res2 = NoError /\ res = d

\* a negative lossy word of full mantissa and largest exponent came back
\* from its 35 characters
LongLossyNegativeCameBack ==
    /\ op = "NewFromString"
    /\ ok
    /\ res2 = NoError
    /\ res \in TextValues
    /\ TextOf(res)
    /\ Len(lhs) = 35
    /\ res.neg
    /\ HasLoss(res)

-----------------------------------------------------------------------------
(* The parser on malformed literals.                                       *)

\* malformed literals: nothing after a sign or '~', a sign or '~' after the
\* digits or after another sign, two decimal points, an exponent marker with
\* no digits after it, a trailing word that is no magic word
MalformedTexts ==
    {<<"-">>, <<"+">>, <<"~">>, <<"-", "~">>, <<"~", "+">>,
     <<"2", "3", "-">>, <<"4", "4", "+">>, <<"1", "2", "~">>,
     <<"-", "+", "2", "3">>, <<"-", "+">>, <<"+", "-">>,
     <<"1", "2", ".", "3", ".", "4">>,
     <<".", "1", "2", "3", "e", "-", "-", "1", "9">>,
     <<"1", "e", "+">>, <<"1", "e", "-", "x">>, <<"1", "e", "x">>,
     <<"1", "e">>, <<"E">>, <<"-", "1", "e", " ">>, <<"\"", "1", "e", "\"">>,
     <<"0", ".", "a">>, <<"a", "z", "e", "r", "t", "y">>,
     <<"-", "m", "C", "F">>, <<"1", "n", "i", "l">>,
     <<"1", "e", "+", "2", "k">>}

\* the last character that is not a space is an exponent marker
MarkerLast(t) == TrimSpace(t) # <<>> /\ TrimSpace(t)[Len(TrimSpace(t))] \in {"e", "E"}

\* C17: NewFromString returns normally for every text, and returns an error
\* for every malformed literal.
ParsingNeverPanics ==
    op = "NewFromString" =>
        /\ ok
        /\ lhs \in MalformedTexts => res2 # NoError

\* the same for the texts that do not end with an exponent marker
ParsingReturnsUnlessMarkerLast ==
    (op = "NewFromString" /\ ~MarkerLast(lhs)) =>
        /\ ok
        /\ lhs \in MalformedTexts => res2 # NoError

\* the text 1e made the parser panic
MarkerLastPanicked ==
    /\ op = "NewFromString"
    /\ lhs = <<"1", "e">>
    /\ ~ok


-----------------------------------------------------------------------------
(* Comparisons of the values that stand for zero.                          *)

ZeroLike == {Null, Zero, NearZero, NearPositiveZero, NearNegativeZero}

\* Decimal(1), the operand of d2.Add(1) and d2.Sub(1)
One == IntWord(FALSE, BOne)

\* the operand is d2.Add(1) for some zero-like d2
ZeroLikePlusOne(d) == \E d2 \in ZeroLike : d = Add(d2, One).d

\* the operand is d2.Sub(1) for some zero-like d2
ZeroLikeMinusOne(d) == \E d2 \in ZeroLike : d = Sub(d2, One).d

\* C18: the zero-like values are mutually equal.  For d1 and d2 among Null,
\* Zero, NearZero, NearPositiveZero and NearNegativeZero, d1.Equal(d2) is
\* true and d1.Compare(d2) is 0; d1.Compare(d2.Add(1)) is -1 and
\* d1.Compare(d2.Sub(1)) is +1.
ZeroLikeMutuallyEqual ==
    /\ op = "Equal" /\ lhs \in ZeroLike /\ rhs \in ZeroLike => ok /\ res = TRUE
    /\ op = "Compare" /\ lhs \in ZeroLike =>
        /\ rhs \in ZeroLike => ok /\ res = 0
        /\ ZeroLikePlusOne(rhs) => ok /\ res = -1
        /\ ZeroLikeMinusOne(rhs) => ok /\ res = 1

\* NearPositiveZero compared with NearNegativeZero.Add(1), a lossy one
NearZerosBelowLossyOne ==
    /\ op = "Compare"
    /\ lhs = NearPositiveZero
    /\ rhs = Add(NearNegativeZero, One).d
    /\ rhs # One
    /\ res = -1

-----------------------------------------------------------------------------
(* The ordering predicates against Compare.                                *)

\* C19: the ordering predicates agree with Compare.  For all non-NaN d1 and
\* d2, d1.Compare(d2) is +1 exactly when d1.GreatherThan(d2), -1 exactly
\* when d1.LessThan(d2) and 0 exactly when d1.Equal(d2).
OrderingAgreesWithCompare ==
    op = "Compare" /\ ~IsNaN(lhs) /\ ~IsNaN(rhs) =>
        /\ (res = 1) <=> GreatherThan(lhs, rhs).r
        /\ (res = -1) <=> LessThan(lhs, rhs).r
        /\ (res = 0) <=> Equal(lhs, rhs).r

\* Compare and Equal are the same test of the same difference
CompareZeroIsEqual ==
    op = "Compare" => ((res = 0) <=> Equal(lhs, rhs).r)

\* the predicates agree whenever the difference is neither NaN nor near zero
OrderingAgreesOnOrdinaryDifference ==
    op = "Compare" /\ ~IsNaN(Sub(lhs, rhs).d) /\ ~IsNearZero(Sub(lhs, rhs).d) =>
        /\ (res = 1) <=> GreatherThan(lhs, rhs).r
        /\ (res = -1) <=> LessThan(lhs, rhs).r

\* +Inf against +Inf: the difference is NaN, Compare answers -1 and
\* LessThan answers false
InfinityBelowItself ==
    /\ op = "Compare"
    /\ lhs = PositiveInfinity
    /\ rhs = PositiveInfinity
    /\ res = -1
    /\ ~LessThan(lhs, rhs).r

\* NearPositiveZero against Zero: Compare answers 0 and GreatherThan true
NearPositiveZeroAboveZero ==
    /\ op = "GreatherThan"
    /\ lhs = NearPositiveZero
    /\ rhs = Zero
    /\ res = TRUE
    /\ Compare(lhs, rhs).r = 0

-----------------------------------------------------------------------------
(* Subtraction as the addition of the negation.                            *)

\* Neg as documented: unchanged for Null, Zero and NearZero, the two signed
\* near zeros exchanged, the sign flipped otherwise
Negated(d) ==
    IF d \in {Null, Zero, NearZero} THEN d
    ELSE IF d = NearPositiveZero THEN NearNegativeZero
    ELSE IF d = NearNegativeZero THEN NearPositiveZero
    ELSE [d EXCEPT !.neg = ~d.neg]

\* C20: Sub is Add of the negation.  For all a and b, magic and ordinary,
\* a.Sub(b) is a.Add(b.Neg()) bit for bit, and Neg returns its argument
\* unchanged for Null, Zero and NearZero, exchanges NearPositiveZero and
\* NearNegativeZero, and flips the sign otherwise.
SubIsAddOfNeg ==
    /\ op = "Sub" => ok = Add(lhs, Neg(rhs)).ok /\ res = Add(lhs, Neg(rhs)).d
    /\ op = "Neg" => res = Negated(lhs)

\* b is NearZero, the one word Neg keeps and the int64 negation changes
SubtractedNearZero ==
    /\ op = "Sub"
    /\ rhs = NearZero
    /\ Neg(rhs) # IntNeg(rhs)
    /\ lhs \notin Magic
    /\ res = Add(lhs, NearZero).d

-----------------------------------------------------------------------------
(* Conversion to int64.                                                    *)

\* the magnitude of the integer part of an ordinary word, truncated
TruncatedMagnitude(d) ==
    IF vme(d).e >= 0 THEN BMul(vme(d).m, BPow10(vme(d).e))
    ELSE BDivMod(vme(d).m, BPow10(-vme(d).e))[1]

IsInfinite(d) == d = PositiveInfinity \/ d = NegativeInfinity

\* d has an integer part: it is neither infinite nor NaN
HasIntegerPart(d) == ~IsInfinite(d) /\ ~IsNaN(d)

\* the integer part of d, which is 0 for the zero-like words
IntegerPart(d) ==
    IF d \in ZeroLike THEN Int64Of(FALSE, BZero)
    ELSE Int64Of(d.neg, TruncatedMagnitude(d))

\* i is an int64
FitsInt64(i) == BLt(i.n, Two63) \/ i = MathMinInt64

\* C21: IntPartErr returns ErrOutOfRange exactly when the integer part of d
\* is not representable as an int64, that is when d is infinite, NaN or too
\* large; for every other word it returns no error and the integer part
\* truncated toward zero.
IntPartErrExactlyWhenUnrepresentable ==
    op = "IntPartErr" =>
        IF HasIntegerPart(lhs) /\ FitsInt64(IntegerPart(lhs))
        THEN res2 = NoError /\ res = IntegerPart(lhs)
        ELSE res2 = ErrOutOfRange

\* whenever no error is returned the result is the truncated integer part,
\* and infinities, NaN and values of 2^63 and above return the error
IntPartErrSound ==
    op = "IntPartErr" =>
        /\ res2 = NoError => HasIntegerPart(lhs) /\ res = IntegerPart(lhs)
        /\ ~(HasIntegerPart(lhs) /\ FitsInt64(IntegerPart(lhs)))
               => res2 = ErrOutOfRange

\* NearZero, whose integer part is 0, is refused
NearZeroOutOfRange ==
    /\ op = "IntPartErr"
    /\ lhs = NearZero
    /\ res2 = ErrOutOfRange

\* an integer between 2^57 and 2^63 is refused
Int64BeyondMantissaOutOfRange ==
    /\ op = "IntPartErr"
    /\ lhs = vmeAsDecimal({}, MaxInt, 1)
    /\ FitsInt64(IntegerPart(lhs))
    /\ res2 = ErrOutOfRange
    /\ res = MathMaxInt64

-----------------------------------------------------------------------------
(* Weights.                                                                *)

\* C22: Weight results keep the left operand's unit.  For all weights w1
\* and w2 and every Decimal d, magic values, zero results and operands of
\* very different magnitude included, w1.Add(w2), w1.Sub(w2) and w1.Mul(d)
\* carry the unit of w1.
ResultKeepsLeftUnit ==
    op \in {"WeightAdd", "WeightSub", "WeightMul"} =>
        ok /\ WeightUnit(res) = WeightUnit(lhs)

\* w is an ordinary weight or Decimal of exponent 0
SmallOrdinary(w) == Ordinary(w) /\ EField(w.hi) = 0

\* the unit is kept by Add and Sub when both operands are ordinary weights
\* of exponent 0 in the same unit, and by Mul when the weight and the factor
\* are ordinary of exponent 0
UnitKeptByOrdinaryOperands ==
    /\ op \in {"WeightAdd", "WeightSub"} /\ SmallOrdinary(lhs)
           /\ SmallOrdinary(rhs) /\ WeightUnit(lhs) = WeightUnit(rhs)
           => ok /\ WeightUnit(res) = WeightUnit(lhs)
    /\ op = "WeightMul" /\ SmallOrdinary(lhs) /\ SmallOrdinary(rhs)
           => ok /\ WeightUnit(res) = WeightUnit(lhs)

\* one gram times Zero is zero kilograms
ZeroProductLosesUnit ==
    /\ op = "WeightMul"
    /\ lhs = vmeAsWeight(UnitBits(5), BOne, 0)
    /\ rhs = Zero
    /\ WeightUnit(lhs) = "g"
    /\ WeightUnit(res) = "kg"

\* one kilogram plus an infinity of grams is an infinity of grams
InfiniteSumTakesRightUnit ==
    /\ op = "WeightAdd"
    /\ lhs = IntWord(FALSE, BOne)
    /\ rhs = vmeAsWeight(loss \cup UnitBits(5), BZero, weightMaxE)
    /\ WeightUnit(lhs) = "kg"
    /\ WeightUnit(res) = "g"

\* C23: Weight.IsExact is true exactly when the loss flag of the weight's
\* decoded tuple is clear, for weights of either sign and any unit.
IsExactIffLossClear ==
    op = "WeightIsExact" => (res <=> vmet(lhs).v \cap loss = {})

\* IsExact agrees with the loss flag of the tuple for the weights that are
\* not negative
IsExactIffLossClearWhenPositive ==
    op = "WeightIsExact" /\ ~lhs.neg => (res <=> vmet(lhs).v \cap loss = {})

\* minus one kilogram, exact, is reported as not exact
ExactNegativeNotExact ==
    /\ op = "WeightIsExact"
    /\ lhs = vmeAsWeight(sign, BOne, 0)
    /\ vmet(lhs).v \cap loss = {}
    /\ res = FALSE

-----------------------------------------------------------------------------
(* Classification.                                                         *)

\* the stored exponents of the NaN words
NaNExponents == (1..(decimal_max_e - 1)) \cup ((decimal_min_e + 1)..(-1))

\* C24: IsNaN classifies by bit layout.  d.IsNaN() is true exactly when d
\* has mantissa 0, the loss flag set and a stored exponent in 1..14 or
\* -15..-1, with either sign; it is false for NearZero, the signed near
\* zeros, the infinities, Null, Zero and every word of nonzero mantissa.
IsNaNByLayout ==
    op = "IsNaN" =>
        (res <=> /\ BIsZero(lhs.lo)
                 /\ lhs.hi \cap loss # {}
                 /\ 63 \notin lhs.hi
                 /\ EField(lhs.hi) \in NaNExponents)

\* the classification holds for every word but the two of exponent 14
IsNaNByLayoutBelowFourteen ==
    op = "IsNaN" /\ ~(BIsZero(lhs.lo) /\ EField(lhs.hi) = decimal_max_e - 1) =>
        (res <=> /\ BIsZero(lhs.lo)
                 /\ lhs.hi \cap loss # {}
                 /\ 63 \notin lhs.hi
                 /\ EField(lhs.hi) \in NaNExponents)

\* the word of loss, mantissa 0 and exponent 14 is not classified as NaN
ExponentFourteenNotNaN ==
    /\ op = "IsNaN"
    /\ lhs = Word(FALSE, loss \cup EBits(decimal_max_e - 1), BZero)
    /\ res = FALSE

-----------------------------------------------------------------------------
(* The range of a normalized tuple.                                        *)

InRange(t, l) == BLe(t.m, l.maxM) /\ l.minE <= t.e /\ t.e <= l.maxE

\* C25: normalization range invariant.  For every tuple of nonzero mantissa
\* and any exponent, vmeNormalize returns a mantissa of at most maxM and an
\* exponent within minE..maxE, so that packing never lets the mantissa spill
\* into the exponent, loss or sign fields.
NormalizedInRange ==
    op = "Normalize" => InRange(res, rhs)

\* the exponent of a normalized tuple is always within minE..maxE
NormalizedExponentInRange ==
    op = "Normalize" => rhs.minE <= res.e /\ res.e <= rhs.maxE

\* a mantissa within range whose exponent is above maxE is multiplied by a
\* power of ten and returned above maxM, without the loss flag
MantissaAboveMaxM ==
    /\ op = "Normalize"
    /\ lhs = [v |-> {}, m |-> MaxInt, e |-> decimal_max_e + 1]
    /\ rhs.maxM = MaxInt
    /\ res.m = BMul(MaxInt, NatOf(10))
    /\ res.e = decimal_max_e
    /\ res.v = {}

-----------------------------------------------------------------------------
(* Near zeros in Add.                                                      *)

NearZeros == {NearZero, NearPositiveZero, NearNegativeZero}

\* the tuples a and b have the same numeric value m * 10^e
SameValue(a, b) ==
    IF a.e >= b.e THEN BMul(a.m, BPow10(a.e - b.e)) = b.m
    ELSE BMul(b.m, BPow10(b.e - a.e)) = a.m

\* r is x with the loss flag set: sign, mantissa and exponent unchanged
LossyUnchanged(x, r) ==
    /\ r.neg = x.neg
    /\ HasLoss(r)
    /\ vme(r).m = vme(x).m
    /\ vme(r).e = vme(x).e

\* r has the sign and the numeric value of x, and the loss flag set
LossyOfSameValue(x, r) ==
    /\ r.neg = x.neg
    /\ HasLoss(r)
    /\ SameValue(vme(x), vme(r))

\* the sums of two near zeros, and NearZero.Sub(NearZero)
NearZeroPairs ==
    /\ op = "Add" /\ lhs \in NearZeros /\ rhs \in NearZeros =>
        res = IF lhs = rhs THEN lhs ELSE NearZero
    /\ op = "Sub" /\ lhs = NearZero /\ rhs = NearZero => res = NearZero

\* C26 as stated: an ordinary x plus a near zero, in either order, is x
\* with unchanged sign, mantissa and exponent and the loss flag set, the
\* same word for the three near zeros; the sum of two near zeros is the
\* near zero of their common sign, NearZero when they differ or one is
\* NearZero; NearZero.Sub(NearZero) is NearZero.
NearZeroAbsorbedUnchanged ==
    /\ op = "Add" /\ Ordinary(lhs) /\ rhs \in NearZeros =>
        LossyUnchanged(lhs, res) /\ res = Add(lhs, NearZero).d
    /\ op = "Add" /\ lhs \in NearZeros /\ Ordinary(rhs) =>
        LossyUnchanged(rhs, res) /\ res = Add(rhs, NearZero).d
    /\ NearZeroPairs

\* C26 as amended: an ordinary x plus a near zero, in either order, has the
\* sign and the numeric value of x and the loss flag set (the stored
\* mantissa and exponent are normalized again), the same word for the three
\* near zeros and both orders; the sums of near zeros are as stated.
NearZeroAbsorbed ==
    /\ op = "Add" /\ Ordinary(lhs) /\ rhs \in NearZeros =>
        LossyOfSameValue(lhs, res) /\ res = Add(lhs, NearZero).d
    /\ op = "Add" /\ lhs \in NearZeros /\ Ordinary(rhs) =>
        LossyOfSameValue(rhs, res) /\ res = Add(rhs, NearZero).d
    /\ NearZeroPairs

\* 1000 plus NearNegativeZero is the lossy 1e3: the mantissa 1000 of the
\* exact operand is stored as 1 with exponent 3
ThousandPlusNearZero ==
    /\ op = "Add"
    /\ lhs = IntWord(FALSE, NatOf(1000))
    /\ rhs = NearNegativeZero
    /\ res = Word(FALSE, loss \cup EBits(3), BOne)
    /\ res = Add(NearPositiveZero, lhs).d

-----------------------------------------------------------------------------
(* The mantissa of a parsed text.                                          *)

\* the digits of a text, its point left out
DigitsOf(s) == SelectSeq(s, IsDigit)

\* the number written by the first k of the digits ds: st holds the index
\* of the next digit and the number written so far
RECURSIVE PrefixValueFrom(_, _, _)
PrefixValueFrom(ds, k, st) ==
    IF st.n > k THEN st.acc
    ELSE PrefixValueFrom(ds, k,
             [n |-> st.n + 1,
              acc |-> BAdd(BMulSmall(st.acc, 10), NatOf(DigitOf(ds[st.n])))])

PrefixValue(ds, k) == PrefixValueFrom(ds, k, [n |-> 1, acc |-> BZero])

\* the digits after the k-th are dropped, and one of them is not zero
DroppedNonZero(ds, k) == \E n \in (k + 1)..Len(ds) : ds[n] # "0"

\* C27: parser mantissa overflow.  The mantissa of a parsed text is the
\* number written by its leading digits, never that number modulo 2^64; the
\* digits after them are dropped, and the loss flag is set whenever one of
\* the dropped digits is not zero, before or after the point.
MantissaNeverWraps ==
    op = "Parse" /\ ok /\ res2 = NoError =>
        \E k \in 0..Len(DigitsOf(lhs)) :
            /\ res.m = PrefixValue(DigitsOf(lhs), k)
            /\ DroppedNonZero(DigitsOf(lhs), k) => res.v \cap loss # {}

\* a text whose digits write a number below 2^64 is parsed in full, its
\* mantissa that number and its loss flag clear
MantissaBelowTwo64 ==
    op = "Parse" /\ ok /\ res2 = NoError
        /\ BLt(PrefixValue(DigitsOf(lhs), Len(DigitsOf(lhs))), Two64)
        /\ ~BIsZero(PrefixValue(DigitsOf(lhs), Len(DigitsOf(lhs))))
    => /\ res.m = PrefixValue(DigitsOf(lhs), Len(DigitsOf(lhs)))
       /\ res.v = {}

\* 18446744073709551619 is parsed as the exact 3
WrappedMantissa ==
    /\ op = "Parse"
    /\ lhs = <<"1", "8", "4", "4", "6", "7", "4", "4", "0", "7", "3", "7", "0",
               "9", "5", "5", "1", "6", "1", "9">>
    /\ res2 = NoError
    /\ res.m = NatOf(3)
    /\ res.e = 0
    /\ res.v = {}

\* the dropped 7 of 0.184467440737095516107 does not set the loss flag
DroppedFractionDigitExact ==
    /\ op = "Parse"
    /\ lhs = <<"0", ".", "1", "8", "4", "4", "6", "7", "4", "4", "0", "7", "3",
               "7", "0", "9", "5", "5", "1", "6", "1", "0", "7">>
    /\ res2 = NoError
    /\ res.m = PrefixValue(DigitsOf(lhs), Len(DigitsOf(lhs)) - 1)
    /\ res.v = {}

-----------------------------------------------------------------------------
(* Packing, unpacking and normalization.                                   *)

\* vmeNormalize of a tuple under the Decimal layout
NormalizedTuple(t) ==
    vmeNormalize(t.v, t.m, t.e, MaxInt, decimal_min_e, decimal_max_e)

\* vmeAsDecimal of a tuple
Packed(t) == vmeAsDecimal(t.v, t.m, t.e)

\* C28: codec round trip and idempotent normalization.  For every tuple t
\* the packed word unpacks to the normalized tuple, vmeAsDecimal(t).vme() =
\* vmeNormalize(t); packing the unpacked word gives the word back; and
\* vmeNormalize of a normalized tuple returns it unchanged.
CodecRoundTrip ==
    /\ op = "Pack" =>
        /\ vme(res) = NormalizedTuple(lhs)
        /\ Packed(vme(res)) = res
    /\ op = "Normalize" =>
        vmeNormalize(res.v, res.m, res.e, rhs.maxM, rhs.minE, rhs.maxE) = res

\* the round trip holds for the tuples of nonzero mantissa that Pack is
\* given, whose exponents are within range
CodecRoundTripOrdinary ==
    op = "Pack" /\ ~BIsZero(lhs.m) =>
        /\ vme(res) = NormalizedTuple(lhs)
        /\ Packed(vme(res)) = res

\* the mantissa 95 at exponent -17 is rounded to 10 at exponent -16, and
\* normalizing (loss, 10, -16) again gives (loss, 1, -15)
RoundedMantissaNotNormal ==
    /\ op = "Normalize"
    /\ lhs = [v |-> {}, m |-> NatOf(95), e |-> decimal_min_e - 1]
    /\ rhs.maxM = MaxInt
    /\ res = VME(loss, NatOf(10), decimal_min_e)
    /\ NormalizedTuple(res) = VME(loss, BOne, decimal_min_e + 1)

\* the tuple (loss, 0, 15) is normalized to itself and packed as +Inf, which
\* unpacks with the exponent MaxInt64
InfinityUnpacksToSentinel ==
    /\ op = "Pack"
    /\ lhs = [v |-> loss, m |-> BZero, e |-> decimal_max_e]
    /\ res = PositiveInfinity
    /\ NormalizedTuple(lhs) = VME(loss, BZero, decimal_max_e)
    /\ vme(res) = VME(loss, BZero, MaxInt64)

-----------------------------------------------------------------------------
(* The memoized hashes of the shared unit table.                           *)

\* every memoized hash is 0 or the hash of the name of its unit
HashesValid ==
    op = "Lookup" =>
        \A i \in 1..Len(LookupUnits) :
            BIsZero(lhs[i]) \/ lhs[i] = unitHash(LookupUnits[i].u)

\* a memoized hash that is not 0 does not change
HashesStable ==
    op = "Lookup" =>
        \A i \in 1..Len(LookupUnits) : ~BIsZero(lhs[i]) => lhs'[i] = lhs[i]

\* what one thread alone returns for the text b and the mantissa m: the
\* first unit whose name has the hash of b, or the reading of b as a magic
\* word
SingleThreaded(b, m) ==
    LET S == {j \in 1..Len(LookupUnits) :
                 /\ LookupUnits[j].u # <<>>
                 /\ unitHash(LookupUnits[j].u) = unitHash(b)}
    IN  IF BIsZero(unitHash(b)) THEN Parsed({}, m, 0, NoError)
        ELSE IF S # {} THEN Parsed(LookupUnits[MinIn(S)].v, m, 0, NoError)
        ELSE vmeUnitOrMagicFromBytes(b, {}, m, 0)

\* every lookup that has returned, returned what one thread alone returns
LookupsAgree ==
    op = "Lookup" =>
        \A t \in Threads :
            rhs[t].pc = "done" => rhs[t].out = SingleThreaded(rhs[t].b, rhs[t].m)

\* C29: the memoization of the unit hashes is race-free and idempotent.
\* While several threads perform their first unit lookup over the shared
\* table, under every interleaving the hash field of each unit holds 0 or
\* the hash of the unit's name, never changes once it is not 0, and every
\* lookup returns what a single-threaded lookup of the same text returns.
MemoizationRaceFree ==
    [](HashesValid /\ LookupsAgree) /\ [][HashesStable]_vars

\* two threads have both loaded the hash 0 of the same unit and both store
\* it: the second store finds the hash already memoized
BothStore ==
    /\ op = "Lookup"
    /\ rhs[1].pc = "store"
    /\ rhs[2].pc = "done"
    /\ rhs[1].i = 4
    /\ rhs[2].i = 4
    /\ ~BIsZero(lhs[4])
    /\ rhs[2].out = Parsed(UnitBits(12), BOne, 0, NoError)

-----------------------------------------------------------------------------
(* Reflexivity of Equal.                                                   *)

\* C30: Equal is reflexive.  d.Equal(d) is true and d.Compare(d) is 0 for
\* every d that is not NaN: the infinities, the lossy values and the
\* zero-like values included.
EqualReflexive ==
    /\ op = "Equal" /\ lhs = rhs /\ ~IsNaN(lhs) => res = TRUE
    /\ op = "Compare" /\ lhs = rhs /\ ~IsNaN(lhs) => res = 0

\* Equal is reflexive on every d that is neither NaN nor infinite
EqualReflexiveOnFinite ==
    /\ op = "Equal" /\ lhs = rhs /\ ~IsNaN(lhs) /\ ~Infinite(lhs) => res = TRUE
    /\ op = "Compare" /\ lhs = rhs /\ ~IsNaN(lhs) /\ ~Infinite(lhs) => res = 0

\* NegativeInfinity.Equal(NegativeInfinity) is false: the difference of an
\* infinity and itself is NaN
InfinityNotEqualItself ==
    /\ op = "Equal"
    /\ lhs = NegativeInfinity
    /\ rhs = NegativeInfinity
    /\ IsNaN(Sub(lhs, rhs).d)
    /\ res = FALSE
=============================================================================
